---- MODULE Spec2Model ----
(***************************************************************************)
(* Model of the MindMate AI resource API and of its client gateway.        *)
(*                                                                         *)
(*  Server: moodController / journalController (CRUD with the ownership    *)
(*          check), Mood and Journal schemas.                              *)
(*  Client: services/authService.ts (axios instance `api`, its request and *)
(*          response interceptors, refreshToken), utils/api.ts (axios      *)
(*          instance `http`) and context/AuthContext.tsx (AuthProvider).   *)
(*                                                                         *)
(*  Spec         the server handlers, called by any authenticated user     *)
(*  SpecGateway  the browser: requests, 401 handling, renewal, login       *)
(***************************************************************************)
EXTENDS Integers, Sequences, FiniteSets, TLC

\* ------------------------------------------------------------------ bounds
MaxDocs == 1         \* documents created in one run, over both collections
MaxReqs == 2         \* requests the browser issues in one run
MaxTokens == 2       \* access tokens the server issues in one run
MaxEntries == 2      \* entries created in one run of the statistics specification
MaxTicks == 2        \* times the clock advances in one run
MaxCalls == 2        \* update and delete requests the server handles at a time
MaxUpdates == 3      \* setValue calls since the value was last set outright
MaxPage == 3         \* last page useInfiniteScroll asks for
PageSize == 2        \* pageSize of useInfiniteScroll, for the source's default 10
MaxToasts == 4       \* loading notifications one useApiRequest shows
\* The windows of the statistics are scaled down with the clock: the source
\* uses 30 days for the timelines and 7 days for the insights.
TimelineDays == 1    \* days of moodTimeline's window (thirtyDaysAgo)
TimelineLimit == 1   \* $limit of journalTimeline
InsightDays == 2     \* days of the insights' window (sevenDaysAgo)

\* ------------------------------------------------------------- value sets
NULL == [null |-> TRUE]   \* findById found nothing / no data in a response
Absent == "absent"        \* a string field the request body does not carry
NoNumber == 0 - 1         \* a numeric field the request body does not carry
NoToken == 0         \* no token in localStorage / no Authorization header
NoUser == "nobody"
\* sentimentScore is kept in fifths: -1 .. 1 is -5 .. 5
ScoreMin == 0 - 5
ScoreMax == 5
NoScore == 100            \* the body carries no sentimentScore
TickHours == 36           \* the clock advances a day and a half at a time
TagLimit == 10            \* $limit of tagStats
\* page and limit values of a list request
PageVals == {1, 2}
LimitVals == {1, 25}
\* journal contents a request body may carry
Contents == {"fine", "happy day", "sad and angry",
             "good, great, amazing, wonderful: happy, excited joy"}

Users == {"u1", "u2", "u3"}
\* the users who sign in at the browser of SpecGateway: the owner of the
\* stored entry and a user who does not own it
Clients == {"u1", "u2"}

\* User.role (enum user | admin | therapist)
Role == [u \in Users |-> CASE u = "u1" -> "user"
                           [] u = "u2" -> "therapist"
                           [] OTHER    -> "admin"]

MoodIds == 1..MaxDocs
JournalIds == 1..MaxDocs
Reqs == 1..MaxReqs

IntensityMin == 1
IntensityMax == 10
RatingMin == 1
RatingMax == 5
\* intensities / ratings a request body may carry: both boundaries and the
\* first value outside each of them
IntensityVals == {IntensityMin - 1, IntensityMin, IntensityMax, IntensityMax + 1}
RatingVals == {RatingMin - 1, RatingMin, RatingMax, RatingMax + 1}

VARIABLES
  \* ---- server
  moods,        \* Mood collection: id -> document or NULL
  journals,     \* Journal collection: id -> document or NULL
  moodSeq,      \* ids the Mood collection has handed out
  journalSeq,   \* ids the Journal collection has handed out
  resp,         \* the request the server handled last and its response
  now,          \* the server clock, in hours
  expired,      \* access tokens that have expired (they expire in the order issued)
  tokenUser,    \* token -> user it was issued to
  nextToken,    \* next token the server issues
  \* ---- browser
  localToken,           \* localStorage 'token'
  defaultAuth,          \* api.defaults.headers.common.Authorization
  location,             \* window.location / router location
  user,                 \* AuthProvider state
  isAuthenticated,      \* AuthProvider state
  interceptorId,        \* AuthProvider state: the interceptor its mount effect installed
  refreshTokenRequest,  \* module variable of authService.ts
  renewCalls,           \* POST /auth/refresh-token calls issued so far
  renewOutcome,         \* renewal number -> what the server answered
  req,                  \* the requests of the run
  \* ---- server, requests in progress
  calls,                \* the update and delete requests the server is handling
  \* ---- components and hooks
  protectedRoute,       \* ProtectedRoute: its props, the auth state and what it renders
  storageHook,          \* useLocalStorage: state, callback closure and localStorage item
  infiniteScroll,       \* useInfiniteScroll: state, loadingRef and the loads under way
  apiRequest            \* useApiRequest: loadingToastId, requests and notifications

serverVars == <<moods, journals, moodSeq, journalSeq, resp, now>>
tokenVars == <<expired, tokenUser, nextToken>>
hookVars == <<protectedRoute, storageHook, infiniteScroll, apiRequest>>
\* the interceptor stays installed; requests in progress and the hooks have
\* specifications of their own
passiveVars == <<interceptorId, calls, hookVars>>
clientVars == <<localToken, defaultAuth, location, user, isAuthenticated,
                passiveVars, refreshTokenRequest, renewCalls, renewOutcome, req>>
vars == <<moods, journals, moodSeq, journalSeq, resp, now,
          expired, tokenUser, nextToken,
          localToken, defaultAuth, location, user, isAuthenticated,
          interceptorId, refreshTokenRequest, renewCalls, renewOutcome, req,
          calls, protectedRoute, storageHook, infiniteScroll, apiRequest>>

\* ================================================================= server
\* ------------------------------------------------------------------ time
\* the server clock counts hours; it starts at midnight of a Sunday
HoursPerDay == 24
DaysPerWeek == 7
dayOf(t) == t \div HoursPerDay
hourOf(t) == t % HoursPerDay
\* $dayOfWeek: 1 (Sunday) .. 7 (Saturday);  Date.getDay(): 0 .. 6
dayOfWeek(t) == (dayOf(t) % DaysPerWeek) + 1
days == <<"sunday", "monday", "tuesday", "wednesday", "thursday", "friday", "saturday">>
\* moodSchema.virtual('timeOfDay')
timeOfDay(t) ==
  IF hourOf(t) < 12 THEN "morning"
  ELSE IF hourOf(t) < 17 THEN "afternoon"
  ELSE IF hourOf(t) < 21 THEN "evening"
  ELSE "night"

\* ------------------------------------------------------------ Mood schema
MoodEnum == {"happy", "sad", "anxious", "angry", "calm", "excited", "grateful",
             "tired", "neutral"}
MoodActivityEnum == {"work", "exercise", "social", "family", "hobby", "rest", "other"}

\* the elements of a sequence
Range(s) == {s[i] : i \in DOMAIN s}

\* request bodies of the CRUD specification: the owner field and the bounded
\* number vary, the other fields are fixed
MoodBodies ==
  [user : Users \cup {Absent}, mood : {"happy"}, intensity : IntensityVals \cup {NoNumber},
   note : {Absent}, activities : {<< >>}, tags : {<< >>}]
JournalBodies ==
  [user : Users \cup {Absent}, content : {"fine"}, emotion : {Absent},
   sentimentScore : {NoScore}, tags : {<< >>}, mood : RatingVals \cup {NoNumber}]

\* moodSchema: user required; mood required, of the enum; intensity
\* required with min 1 and max 10; activities of the enum
moodSchemaValid(doc) ==
  /\ doc.user # Absent
  /\ doc.mood \in MoodEnum
  /\ doc.intensity # NoNumber
  /\ doc.intensity >= IntensityMin
  /\ doc.intensity <= IntensityMax
  /\ Range(doc.activities) \subseteq MoodActivityEnum

\* journalSchema: user required; content required (not empty); emotion of
\* the enum; sentimentScore within -1 .. 1; mood required with min 1, max 5
journalSchemaValid(doc) ==
  /\ doc.user # Absent
  /\ doc.content \notin {Absent, ""}
  /\ doc.emotion \in MoodEnum
  /\ doc.sentimentScore # NoScore =>
       (doc.sentimentScore >= ScoreMin /\ doc.sentimentScore <= ScoreMax)
  /\ doc.mood # NoNumber
  /\ doc.mood >= RatingMin
  /\ doc.mood <= RatingMax

\* update validators (runValidators: true) look at the paths the patch sets
moodPatchValid_noValidators(patch) == TRUE

moodPatchValid(patch) ==
  /\ patch.mood # Absent => patch.mood \in MoodEnum
  /\ patch.intensity # NoNumber =>
       (patch.intensity >= IntensityMin /\ patch.intensity <= IntensityMax)
  /\ Range(patch.activities) \subseteq MoodActivityEnum

journalPatchValid(patch) ==
  /\ patch.content # Absent => patch.content # ""
  /\ patch.emotion # Absent => patch.emotion \in MoodEnum
  /\ patch.sentimentScore # NoScore =>
       (patch.sentimentScore >= ScoreMin /\ patch.sentimentScore <= ScoreMax)
  /\ patch.mood # NoNumber => (patch.mood >= RatingMin /\ patch.mood <= RatingMax)

\* Model.findByIdAndUpdate(id, body): $set of every path the body carries
\* (an empty array stands for a path the body does not carry); no save
\* hook runs
moodApplyPatch(doc, patch) ==
  [user |-> IF patch.user # Absent THEN patch.user ELSE doc.user,
   mood |-> IF patch.mood # Absent THEN patch.mood ELSE doc.mood,
   intensity |-> IF patch.intensity # NoNumber THEN patch.intensity ELSE doc.intensity,
   note |-> IF patch.note # Absent THEN patch.note ELSE doc.note,
   activities |-> IF patch.activities # << >> THEN patch.activities ELSE doc.activities,
   tags |-> IF patch.tags # << >> THEN patch.tags ELSE doc.tags,
   createdAt |-> doc.createdAt]

journalApplyPatch(doc, patch) ==
  [user |-> IF patch.user # Absent THEN patch.user ELSE doc.user,
   content |-> IF patch.content # Absent THEN patch.content ELSE doc.content,
   emotion |-> IF patch.emotion # Absent THEN patch.emotion ELSE doc.emotion,
   sentimentScore |-> IF patch.sentimentScore # NoScore
                        THEN patch.sentimentScore ELSE doc.sentimentScore,
   tags |-> IF patch.tags # << >> THEN patch.tags ELSE doc.tags,
   mood |-> IF patch.mood # NoNumber THEN patch.mood ELSE doc.mood,
   createdAt |-> doc.createdAt]

\* moodSchema.pre('save'): a default note when there is none, and the day
\* and the time of day as tags when there are no tags
moodPreSave(doc) ==
  [doc EXCEPT
     !.note = IF doc.note \in {Absent, ""}
                THEN "Feeling " \o doc.mood \o " with intensity "
                       \o ToString(doc.intensity) \o "/10"
                ELSE doc.note,
     !.tags = IF doc.tags = << >>
                THEN <<days[dayOfWeek(doc.createdAt)], timeOfDay(doc.createdAt)>>
                ELSE doc.tags]

\* the sentiment words a content includes (content.toLowerCase().includes)
positiveWords == {"happy", "joy", "excited", "good", "great", "amazing", "wonderful"}
negativeWords == {"sad", "angry", "anxious", "bad", "terrible", "awful", "worst"}

Includes ==
  [c \in Contents |->
     CASE c = "fine" -> {}
       [] c = "happy day" -> {"happy"}
       [] c = "sad and angry" -> {"sad", "angry"}
       [] c = "good, great, amazing, wonderful: happy, excited joy" -> positiveWords
       [] OTHER -> {}]

Min(a, b) == IF a <= b THEN a ELSE b
Max(a, b) == IF a >= b THEN a ELSE b

\* Math.max(-1, Math.min(1, score / 5)), in fifths
sentiment(content) ==
  LET score == Cardinality(Includes[content] \cap positiveWords)
                 - Cardinality(Includes[content] \cap negativeWords)
  IN Max(ScoreMin, Min(ScoreMax, score))

\* journalSchema.pre('save'): this.isModified('content') && !this.sentimentScore
journalPreSave(doc, contentModified) ==
  IF contentModified /\ doc.sentimentScore \in {NoScore, 0}
    THEN [doc EXCEPT !.sentimentScore = sentiment(doc.content)]
    ELSE doc

\* schema defaults applied when a document is built from a body
moodDocument(body, t) ==
  [user |-> body.user, mood |-> body.mood, intensity |-> body.intensity,
   note |-> body.note, activities |-> body.activities, tags |-> body.tags,
   createdAt |-> t]

journalDocument(body, t) ==
  [user |-> body.user, content |-> body.content,
   emotion |-> IF body.emotion = Absent THEN "neutral" ELSE body.emotion,
   sentimentScore |-> body.sentimentScore, tags |-> body.tags, mood |-> body.mood,
   createdAt |-> t]

\* req.body.user = req.user.id
moodStampOwner_keepSupplied(body, caller) ==
  IF body.user = Absent THEN [body EXCEPT !.user = caller] ELSE body

moodStampOwner(body, caller) == [body EXCEPT !.user = caller]

journalStampOwner(body, caller) == [body EXCEPT !.user = caller]

\* mood.user.toString() !== req.user.id && req.user.role !== 'admin'
moodNotAuthorized_therapist(doc, caller) ==
  doc.user # caller /\ Role[caller] \notin {"admin", "therapist"}

moodNotAuthorized(doc, caller) == doc.user # caller /\ Role[caller] # "admin"

journalNotAuthorized(doc, caller) == doc.user # caller /\ Role[caller] # "admin"

\* a request without a body
NoBody == [user |-> Absent]

\* what the server was asked and what it answered
Response(rtype, op, caller, id, body, status, data) ==
  [rtype |-> rtype, op |-> op, caller |-> caller, id |-> id,
   bodyUser |-> body.user, body |-> body, status |-> status, data |-> data,
   at |-> now]

NoResponse ==
  [rtype |-> "none", op |-> "none", caller |-> NoUser, id |-> 0, bodyUser |-> Absent,
   body |-> NoBody, status |-> 0, data |-> NULL, at |-> 0]

\* ------------------------------------------------------- moodController.js
getMood(caller, id) ==
  LET mood == moods[id] IN
  /\ resp' = IF mood = NULL
               THEN Response("mood", "get", caller, id, NoBody, 404, NULL)
             ELSE IF moodNotAuthorized(mood, caller)
               THEN Response("mood", "get", caller, id, NoBody, 401, NULL)
             ELSE Response("mood", "get", caller, id, NoBody, 200, mood)
  /\ UNCHANGED <<moods, journals, moodSeq, journalSeq>>

createMood(caller, body) ==
  LET built == moodDocument(moodStampOwner(body, caller), now)
      doc == moodPreSave(built)
  IN
  IF moodSchemaValid(built)
    THEN /\ moodSeq' = moodSeq + 1
         /\ moods' = [moods EXCEPT ![moodSeq + 1] = doc]
         /\ resp' = Response("mood", "create", caller, moodSeq + 1, body, 201, doc)
         /\ UNCHANGED <<journals, journalSeq>>
    ELSE /\ resp' = Response("mood", "create", caller, 0, body, 400, NULL)
         /\ UNCHANGED <<moods, journals, moodSeq, journalSeq>>

updateMood(caller, id, body) ==
  LET mood == moods[id] IN
  IF mood = NULL
    THEN /\ resp' = Response("mood", "update", caller, id, body, 404, NULL)
         /\ UNCHANGED <<moods, journals, moodSeq, journalSeq>>
  ELSE IF moodNotAuthorized(mood, caller)
    THEN /\ resp' = Response("mood", "update", caller, id, body, 401, NULL)
         /\ UNCHANGED <<moods, journals, moodSeq, journalSeq>>
  ELSE IF ~moodPatchValid(body)
    THEN /\ resp' = Response("mood", "update", caller, id, body, 400, NULL)
         /\ UNCHANGED <<moods, journals, moodSeq, journalSeq>>
  ELSE /\ moods' = [moods EXCEPT ![id] = moodApplyPatch(mood, body)]
       /\ resp' = Response("mood", "update", caller, id, body, 200,
                           moodApplyPatch(mood, body))
       /\ UNCHANGED <<journals, moodSeq, journalSeq>>

\* deleteMood without its `if (!mood)` branch: mood.user of null throws
deleteMood_noNotFound(caller, id) ==
  LET mood == moods[id] IN
  IF mood = NULL
    THEN /\ resp' = Response("mood", "delete", caller, id, NoBody, 500, NULL)
         /\ UNCHANGED <<moods, journals, moodSeq, journalSeq>>
  ELSE IF moodNotAuthorized(mood, caller)
    THEN /\ resp' = Response("mood", "delete", caller, id, NoBody, 401, NULL)
         /\ UNCHANGED <<moods, journals, moodSeq, journalSeq>>
  ELSE /\ moods' = [moods EXCEPT ![id] = NULL]
       /\ resp' = Response("mood", "delete", caller, id, NoBody, 200, NULL)
       /\ UNCHANGED <<journals, moodSeq, journalSeq>>

deleteMood(caller, id) ==
  LET mood == moods[id] IN
  IF mood = NULL
    THEN /\ resp' = Response("mood", "delete", caller, id, NoBody, 404, NULL)
         /\ UNCHANGED <<moods, journals, moodSeq, journalSeq>>
  ELSE IF moodNotAuthorized(mood, caller)
    THEN /\ resp' = Response("mood", "delete", caller, id, NoBody, 401, NULL)
         /\ UNCHANGED <<moods, journals, moodSeq, journalSeq>>
  ELSE /\ moods' = [moods EXCEPT ![id] = NULL]
       /\ resp' = Response("mood", "delete", caller, id, NoBody, 200, NULL)
       /\ UNCHANGED <<journals, moodSeq, journalSeq>>

\* ---------------------------------------------------- journalController.js
getJournal(caller, id) ==
  LET journal == journals[id] IN
  /\ resp' = IF journal = NULL
               THEN Response("journal", "get", caller, id, NoBody, 404, NULL)
             ELSE IF journalNotAuthorized(journal, caller)
               THEN Response("journal", "get", caller, id, NoBody, 401, NULL)
             ELSE Response("journal", "get", caller, id, NoBody, 200, journal)
  /\ UNCHANGED <<moods, journals, moodSeq, journalSeq>>

createJournal(caller, body) ==
  LET built == journalDocument(journalStampOwner(body, caller), now)
      doc == journalPreSave(built, TRUE)
  IN
  IF journalSchemaValid(built)
    THEN /\ journalSeq' = journalSeq + 1
         /\ journals' = [journals EXCEPT ![journalSeq + 1] = doc]
         /\ resp' = Response("journal", "create", caller, journalSeq + 1, body, 201, doc)
         /\ UNCHANGED <<moods, moodSeq>>
    ELSE /\ resp' = Response("journal", "create", caller, 0, body, 400, NULL)
         /\ UNCHANGED <<moods, journals, moodSeq, journalSeq>>

updateJournal(caller, id, body) ==
  LET journal == journals[id] IN
  IF journal = NULL
    THEN /\ resp' = Response("journal", "update", caller, id, body, 404, NULL)
         /\ UNCHANGED <<moods, journals, moodSeq, journalSeq>>
  ELSE IF journalNotAuthorized(journal, caller)
    THEN /\ resp' = Response("journal", "update", caller, id, body, 401, NULL)
         /\ UNCHANGED <<moods, journals, moodSeq, journalSeq>>
  ELSE IF ~journalPatchValid(body)
    THEN /\ resp' = Response("journal", "update", caller, id, body, 400, NULL)
         /\ UNCHANGED <<moods, journals, moodSeq, journalSeq>>
  ELSE /\ journals' = [journals EXCEPT ![id] = journalApplyPatch(journal, body)]
       /\ resp' = Response("journal", "update", caller, id, body, 200,
                           journalApplyPatch(journal, body))
       /\ UNCHANGED <<moods, moodSeq, journalSeq>>

deleteJournal(caller, id) ==
  LET journal == journals[id] IN
  IF journal = NULL
    THEN /\ resp' = Response("journal", "delete", caller, id, NoBody, 404, NULL)
         /\ UNCHANGED <<moods, journals, moodSeq, journalSeq>>
  ELSE IF journalNotAuthorized(journal, caller)
    THEN /\ resp' = Response("journal", "delete", caller, id, NoBody, 401, NULL)
         /\ UNCHANGED <<moods, journals, moodSeq, journalSeq>>
  ELSE /\ journals' = [journals EXCEPT ![id] = NULL]
       /\ resp' = Response("journal", "delete", caller, id, NoBody, 200, NULL)
       /\ UNCHANGED <<moods, moodSeq, journalSeq>>

\* ------------------------------------------------------------ aggregation
\* $match { user: req.user._id }: the ids of the entries of `u` in a collection
moodMatchUser_all(store, u) == {id \in DOMAIN store : store[id] # NULL}

moodMatchUser(store, u) ==
  {id \in DOMAIN store : store[id] # NULL /\ store[id].user = u}

journalMatchUser_all(store, u) == {id \in DOMAIN store : store[id] # NULL}

journalMatchUser(store, u) ==
  {id \in DOMAIN store : store[id] # NULL /\ store[id].user = u}

\* the ids of a set in ascending order: the order of insertion
RECURSIVE InOrder(_)
InOrder(ids) ==
  IF ids = {} THEN << >>
  ELSE LET least == CHOOSE i \in ids : \A j \in ids : i <= j
       IN <<least>> \o InOrder(ids \ {least})

\* $sum / $avg / $push over the entries `ids` of a group
RECURSIVE SumIntensity(_, _)
SumIntensity(store, ids) ==
  IF ids = {} THEN 0
  ELSE LET id == CHOOSE i \in ids : TRUE
       IN store[id].intensity + SumIntensity(store, ids \ {id})

RECURSIVE SumMood(_, _)
SumMood(store, ids) ==
  IF ids = {} THEN 0
  ELSE LET id == CHOOSE i \in ids : TRUE
       IN store[id].mood + SumMood(store, ids \ {id})

\* an average, kept exact as sum over count
Mean(sum, count) == [sum |-> sum, count |-> count]

PushMoods(store, ids) == [i \in DOMAIN InOrder(ids) |-> store[InOrder(ids)[i]].mood]

\* the _id expressions of the $group stages and the paths of the $unwind
\* stages
keyMood(doc) == doc.mood
keyDay(doc) == dayOf(doc.createdAt)
keyDayOfWeek(doc) == dayOfWeek(doc.createdAt)
keyHour(doc) == hourOf(doc.createdAt)
fieldActivities(doc) == doc.activities
fieldTags(doc) == doc.tags

groupKey(doc, expr) ==
  CASE expr = "$mood" -> keyMood(doc)
    [] expr = "%Y-%m-%d" -> keyDay(doc)
    [] expr = "$dayOfWeek" -> keyDayOfWeek(doc)
    [] expr = "$hour" -> keyHour(doc)

unwindPath(doc, path) ==
  IF path = "$activities" THEN fieldActivities(doc) ELSE fieldTags(doc)

\* $group of a Mood pipeline: one bucket per key, over the matched entries
moodGroup(store, ids, expr) ==
  {LET members == {id \in ids : groupKey(store[id], expr) = k} IN
   [_id |-> k, count |-> Cardinality(members),
    avgIntensity |-> Mean(SumIntensity(store, members), Cardinality(members)),
    moods |-> PushMoods(store, members)]
   : k \in {groupKey(store[id], expr) : id \in ids}}

\* $unwind of an array field, then $group on its elements
unwindGroup(store, ids, path) ==
  {LET members == {id \in ids : k \in Range(unwindPath(store[id], path))} IN
   [_id |-> k, count |-> Cardinality(members), members |-> members]
   : k \in UNION {Range(unwindPath(store[id], path)) : id \in ids}}

\* every arrangement of a set of buckets
Arrangements(buckets) ==
  {s \in [1..Cardinality(buckets) -> buckets] : Range(s) = buckets}

\* $sort { count: -1 }: the outcomes of a sort on count alone; the order
\* of buckets with equal count is not fixed by the pipeline
sortByCount(buckets) ==
  {s \in Arrangements(buckets) :
     \A i, j \in DOMAIN s : i < j => s[i].count >= s[j].count}

\* $sort { _id: 1 }: group keys are distinct, the outcome is one sequence
sortById(buckets) ==
  CHOOSE s \in Arrangements(buckets) :
    \A i, j \in DOMAIN s : i < j => s[i]._id < s[j]._id

\* $limit n
limit(s, n) == IF Len(s) <= n THEN s ELSE SubSeq(s, 1, n)

\* -------------------------------------------------------- getMoodStats

\* the buckets of moodDistribution, before the sort
moodDistribution(store, u) ==
  {[_id |-> b._id, count |-> b.count, avgIntensity |-> b.avgIntensity]
   : b \in moodGroup(store, moodMatchUser(store, u), "$mood")}

\* thirtyDaysAgo: the window of moodTimeline
thirtyDaysAgo(t) == t - TimelineDays * HoursPerDay

moodTimeline(store, u, t) ==
  sortById(moodGroup(store,
                     {id \in moodMatchUser(store, u) :
                        store[id].createdAt >= thirtyDaysAgo(t)},
                     "%Y-%m-%d"))

moodByDay(store, u) == sortById(moodGroup(store, moodMatchUser(store, u), "$dayOfWeek"))

moodByHour(store, u) == sortById(moodGroup(store, moodMatchUser(store, u), "$hour"))

\* the buckets of activitiesCorrelation, before the sort
activitiesCorrelation(store, u) ==
  {[_id |-> g._id, count |-> g.count,
    avgIntensity |-> Mean(SumIntensity(store, g.members), g.count),
    moods |-> PushMoods(store, g.members)]
   : g \in unwindGroup(store,
                       {id \in moodMatchUser(store, u) : store[id].activities # << >>},
                       "$activities")}

\* the responses getMoodStats may give for `u` at time t
moodStats(store, u, t) ==
  {[moodDistribution |-> dist, moodTimeline |-> moodTimeline(store, u, t),
    moodByDay |-> moodByDay(store, u), moodByHour |-> moodByHour(store, u),
    activitiesCorrelation |-> corr]
   : dist \in sortByCount(moodDistribution(store, u)),
     corr \in sortByCount(activitiesCorrelation(store, u))}

getMoodStats(caller) ==
  /\ \E data \in moodStats(moods, caller, now) :
       resp' = Response("mood", "stats", caller, 0, NoBody, 200, data)
  /\ UNCHANGED <<moods, journals, moodSeq, journalSeq>>

\* ------------------------------------------------------ getJournalStats
journalMoodStats(store, u) ==
  {[_id |-> k,
    count |-> Cardinality({id \in journalMatchUser(store, u) : store[id].emotion = k})]
   : k \in {store[id].emotion : id \in journalMatchUser(store, u)}}

\* the buckets of journalTimeline in ascending order of the day
journalDays(store, u) ==
  sortById({LET members == {id \in journalMatchUser(store, u) :
                              dayOf(store[id].createdAt) = k} IN
            [_id |-> k, count |-> Cardinality(members),
             avgMood |-> Mean(SumMood(store, members), Cardinality(members))]
            : k \in {dayOf(store[id].createdAt) : id \in journalMatchUser(store, u)}})

\* $sort { _id: 1 }, $limit 30
journalTimeline(store, u) == limit(journalDays(store, u), TimelineLimit)

tagStats(store, u) ==
  {[_id |-> g._id, count |-> g.count]
   : g \in unwindGroup(store,
                       {id \in journalMatchUser(store, u) : store[id].tags # << >>},
                       "$tags")}

journalStats(store, u) ==
  {[moodStats |-> ms, journalTimeline |-> journalTimeline(store, u),
    tagStats |-> limit(ts, TagLimit)]
   : ms \in sortByCount(journalMoodStats(store, u)),
     ts \in sortByCount(tagStats(store, u))}

getJournalStats(caller) ==
  /\ \E data \in journalStats(journals, caller) :
       resp' = Response("journal", "stats", caller, 0, NoBody, 200, data)
  /\ UNCHANGED <<moods, journals, moodSeq, journalSeq>>

\* ----------------------------------------------------- getMoodInsights
\* sevenDaysAgo: the window of the insights
sevenDaysAgo(t) == t - InsightDays * HoursPerDay

Reverse(s) == [i \in DOMAIN s |-> s[Len(s) + 1 - i]]

\* Mood.find({user, createdAt >= sevenDaysAgo}).sort({createdAt: -1}); the
\* entries get their timestamps in the order of their ids
recentMoods(store, u, t) ==
  LET ids == {id \in moodMatchUser(store, u) : store[id].createdAt >= sevenDaysAgo(t)}
  IN [i \in DOMAIN InOrder(ids) |-> store[Reverse(InOrder(ids))[i]]]

\* moodCounts, and the first key of its entries sorted by count descending
\* (a stable sort of the keys in the order they were first met)
moodCounts(recent) ==
  [m \in {recent[i].mood : i \in DOMAIN recent} |->
     Cardinality({i \in DOMAIN recent : recent[i].mood = m})]

mostCommonMood(recent) ==
  LET counts == moodCounts(recent)
      best == CHOOSE n \in Range(counts) : \A k \in Range(counts) : k <= n
      first == CHOOSE i \in DOMAIN recent :
                 /\ counts[recent[i].mood] = best
                 /\ \A j \in DOMAIN recent : counts[recent[j].mood] = best => i <= j
  IN recent[first].mood

RECURSIVE SumSeqIntensity(_)
SumSeqIntensity(s) ==
  IF s = << >> THEN 0 ELSE Head(s).intensity + SumSeqIntensity(Tail(s))

\* recentMoods.flatMap(mood => mood.activities || [])
RECURSIVE FlatActivities(_)
FlatActivities(s) ==
  IF s = << >> THEN << >> ELSE Head(s).activities \o FlatActivities(Tail(s))

\* the first key of activityCounts' entries sorted by count descending (a
\* stable sort of the keys in the order they were first met)
mostCommonActivity(activities) ==
  LET count(a) == Cardinality({i \in DOMAIN activities : activities[i] = a})
      best == CHOOSE n \in {count(a) : a \in Range(activities)} :
                \A a \in Range(activities) : count(a) <= n
      first == CHOOSE i \in DOMAIN activities :
                 /\ count(activities[i]) = best
                 /\ \A j \in DOMAIN activities : count(activities[j]) = best => i <= j
  IN activities[first]

\* the mood trend insight: lastMood.intensity - firstMood.intensity
trendInsight(recent) ==
  LET moodChange == recent[1].intensity - recent[Len(recent)].intensity IN
  IF moodChange > 2
    THEN <<"Your mood has improved significantly over the past week.">>
  ELSE IF moodChange < 0 - 2
    THEN <<"Your mood has declined significantly over the past week.">>
  ELSE << >>

activityInsight(recent) ==
  IF FlatActivities(recent) = << >> THEN << >>
  ELSE <<"You've been engaging in " \o mostCommonActivity(FlatActivities(recent))
           \o " frequently.">>

insights(recent) == trendInsight(recent) \o activityInsight(recent)

activitySuggestions(recent) ==
  IF FlatActivities(recent) = << >> THEN << >>
  ELSE IF mostCommonActivity(FlatActivities(recent)) = "exercise"
    THEN <<"Keep up with your exercise routine! Regular physical activity is great for mental health.">>
  ELSE IF mostCommonActivity(FlatActivities(recent)) = "meditation"
    THEN <<"Your meditation practice is helping build mindfulness. Consider trying different techniques.">>
  ELSE << >>

moodSuggestions(recent) ==
  CASE mostCommonMood(recent) = "anxious" ->
         <<"Try deep breathing exercises to help manage anxiety.",
           "Consider journaling about what's causing your anxiety to better understand and process your feelings.">>
    [] mostCommonMood(recent) = "sad" ->
         <<"Reach out to a friend or loved one for support.",
           "Engage in activities you usually enjoy, even if you don't feel like it right now.">>
    [] mostCommonMood(recent) = "happy" ->
         <<"Share your positive energy with others!",
           "Take a moment to reflect on what's contributing to your happiness.">>
    [] OTHER -> << >>

\* avgIntensity > 7 / avgIntensity < 4, on the exact mean
intensitySuggestions(recent) ==
  IF SumSeqIntensity(recent) > 7 * Len(recent)
    THEN <<"Your high intensity moods suggest you might benefit from stress-reduction techniques.">>
  ELSE IF SumSeqIntensity(recent) < 4 * Len(recent)
    THEN <<"Consider activities that energize you to help lift your mood.">>
  ELSE << >>

suggestions(recent) ==
  activitySuggestions(recent) \o moodSuggestions(recent) \o intensitySuggestions(recent)

\* [...new Set(s)]: the first occurrence of every element, in order
RECURSIVE Dedupe(_)
Dedupe(s) ==
  IF s = << >> THEN << >>
  ELSE LET front == Dedupe(SubSeq(s, 1, Len(s) - 1)) IN
       IF s[Len(s)] \in Range(front) THEN front ELSE Append(front, s[Len(s)])

SuggestionLimit == 3

\* [...new Set(suggestions)].slice(0, 3)
capSuggestions_uncapped(s) == s

capSuggestions(s) == limit(Dedupe(s), SuggestionLimit)

moodInsights_noEmptyCase(store, u, t) ==
  LET recent == recentMoods(store, u, t) IN
  [recentMood |-> IF Len(recent) = 0 THEN NULL ELSE recent[1],
   moodTrend |-> [i \in DOMAIN recent |->
                    [date |-> recent[i].createdAt, mood |-> recent[i].mood,
                     intensity |-> recent[i].intensity]],
   stats |-> [averageIntensity |-> Mean(SumSeqIntensity(recent), Len(recent)),
              totalEntries |-> Len(recent)]]

moodInsights(store, u, t) ==
  LET recent == recentMoods(store, u, t) IN
  IF Len(recent) = 0
    THEN [message |-> "No mood entries found in the last 7 days",
          suggestions |->
            <<"Start by adding your first mood entry to track your emotional well-being.">>]
    ELSE [recentMood |-> recent[1],
          moodTrend |-> [i \in DOMAIN recent |->
                           [date |-> recent[i].createdAt, mood |-> recent[i].mood,
                            intensity |-> recent[i].intensity]],
          stats |-> [averageIntensity |-> Mean(SumSeqIntensity(recent), Len(recent)),
                     mostCommonMood |-> mostCommonMood(recent),
                     moodCounts |-> moodCounts(recent),
                     totalEntries |-> Len(recent)],
          insights |-> insights(recent),
          suggestions |-> capSuggestions(suggestions(recent))]

getMoodInsights(caller) ==
  /\ resp' = Response("mood", "insights", caller, 0, NoBody, 200,
                      moodInsights(moods, caller, now))
  /\ UNCHANGED <<moods, journals, moodSeq, journalSeq>>

\* ------------------------------------------- advancedResults, getMoods
\* the query of a list request: a field-equality filter, page and limit
NoFilter == "none"
ListQueries == [user : {NoFilter, "u2"}, page : PageVals, limit : LimitVals]

\* the entries a list is taken from: those of the requesting user
listScope_everyone(store, u) == {id \in DOMAIN store : store[id] # NULL}

listScope(store, u) == {id \in DOMAIN store : store[id] # NULL /\ store[id].user = u}

\* field-equality filter, creation time descending, page and limit
advancedResults(store, u, query) ==
  LET ids == {id \in listScope(store, u) :
                query.user = NoFilter \/ store[id].user = query.user}
      found == [i \in DOMAIN InOrder(ids) |-> store[Reverse(InOrder(ids))[i]]]
      from == (query.page - 1) * query.limit + 1
      to == Min(query.page * query.limit, Len(found))
  IN [success |-> TRUE, total |-> Len(found),
      data |-> IF from > to THEN << >> ELSE SubSeq(found, from, to)]

getMoods(caller, query) ==
  /\ resp' = Response("mood", "list", caller, 0, query, 200,
                      advancedResults(moods, caller, query))
  /\ UNCHANGED <<moods, journals, moodSeq, journalSeq>>

getJournals(caller, query) ==
  /\ resp' = Response("journal", "list", caller, 0, query, 200,
                      advancedResults(journals, caller, query))
  /\ UNCHANGED <<moods, journals, moodSeq, journalSeq>>

\* ------------------------------------------------ the server specification
\* a request slot of the browser.  st: idle | sent | awaitRenew | retrySent |
\* ok | rejected;  via: the axios instance (api | http) or ctx for a call of
\* the context's refreshToken();  retry: config._retry;  sends: times it
\* went over the network;  cause / status: the server's last answer;  ren:
\* the renewal it awaits or awaited;  by: the interceptor that awaits;
\* err: response (its own error) | renewal (the refresh error)
NoRequest == [st |-> "idle", via |-> "none", id |-> 0, auth |-> NoToken,
              retry |-> FALSE, sends |-> 0, cause |-> "none", status |-> 0,
              ren |-> 0, joined |-> FALSE, by |-> "none", err |-> "none"]

\* nothing is in progress and no hook is mounted
Unmounted == [mounted |-> FALSE]

HookInit ==
  /\ calls = << >>
  /\ protectedRoute = Unmounted
  /\ storageHook = Unmounted
  /\ infiniteScroll = Unmounted
  /\ apiRequest = Unmounted

AuthInit ==
  /\ localToken = NoToken
  /\ defaultAuth = NoToken
  /\ location = "/login"
  /\ user = NoUser
  /\ isAuthenticated = FALSE
  /\ interceptorId = "installed"
  /\ refreshTokenRequest = 0
  /\ renewCalls = 0
  /\ renewOutcome = << >>
  /\ req = [r \in Reqs |-> NoRequest]

ClientInit == AuthInit /\ HookInit

TokenInit ==
  /\ expired = 0
  /\ tokenUser = << >>
  /\ nextToken = 1

Init ==
  /\ moods = [id \in MoodIds |-> NULL]
  /\ journals = [id \in JournalIds |-> NULL]
  /\ moodSeq = 0
  /\ journalSeq = 0
  /\ resp = NoResponse
  /\ now = 0
  /\ TokenInit
  /\ ClientInit

\* every route is behind `protect`: the caller is an authenticated user
GetMood ==
  \E caller \in Users, id \in MoodIds :
    getMood(caller, id) /\ UNCHANGED <<tokenVars, clientVars, now>>

CreateMood ==
  \E caller \in Users, body \in MoodBodies :
    /\ createMood(caller, body)
    /\ moodSeq' + journalSeq' <= MaxDocs
    /\ UNCHANGED <<tokenVars, clientVars, now>>

UpdateMood ==
  \E caller \in Users, id \in MoodIds, body \in MoodBodies :
    updateMood(caller, id, body) /\ UNCHANGED <<tokenVars, clientVars, now>>

DeleteMood ==
  \E caller \in Users, id \in MoodIds :
    deleteMood(caller, id) /\ UNCHANGED <<tokenVars, clientVars, now>>

GetJournal ==
  \E caller \in Users, id \in JournalIds :
    getJournal(caller, id) /\ UNCHANGED <<tokenVars, clientVars, now>>

CreateJournal ==
  \E caller \in Users, body \in JournalBodies :
    /\ createJournal(caller, body)
    /\ moodSeq' + journalSeq' <= MaxDocs
    /\ UNCHANGED <<tokenVars, clientVars, now>>

UpdateJournal ==
  \E caller \in Users, id \in JournalIds, body \in JournalBodies :
    updateJournal(caller, id, body) /\ UNCHANGED <<tokenVars, clientVars, now>>

DeleteJournal ==
  \E caller \in Users, id \in JournalIds :
    deleteJournal(caller, id) /\ UNCHANGED <<tokenVars, clientVars, now>>

Next ==
  \/ GetMood
  \/ CreateMood
  \/ UpdateMood
  \/ DeleteMood
  \/ GetJournal
  \/ CreateJournal
  \/ UpdateJournal
  \/ DeleteJournal

Spec == Init /\ [][Next]_vars

\* ------------------------------------------- the statistics specification
\* the two users keep mood and journal entries over a few days and ask for
\* their lists, statistics and insights
EntryIds == 1..MaxEntries

StatsMoodBodies ==
  [user : {Absent}, mood : {"anxious", "happy"}, intensity : {3, 8},
   note : {Absent}, activities : {<< >>}, tags : {<< >>}]
  \cup
  [user : {Absent}, mood : {"happy"}, intensity : {8},
   note : {"walked"}, activities : {<<"exercise", "social">>}, tags : {<<"outdoors">>}]

StatsJournalBodies ==
  [user : {Absent}, content : {"fine"}, emotion : {Absent},
   sentimentScore : {NoScore}, tags : {<< >>}, mood : {RatingMax}]
  \cup
  [user : {Absent}, content : {"fine"}, emotion : {"sad"},
   sentimentScore : {NoScore}, tags : {<<"family", "work">>}, mood : {RatingMin}]

InitStats ==
  /\ moods = [id \in EntryIds |-> NULL]
  /\ journals = [id \in EntryIds |-> NULL]
  /\ moodSeq = 0
  /\ journalSeq = 0
  /\ resp = NoResponse
  /\ now = 0
  /\ TokenInit
  /\ ClientInit

\* time passes
Tick ==
  /\ now < MaxTicks * TickHours
  /\ now' = now + TickHours
  /\ UNCHANGED <<moods, journals, moodSeq, journalSeq, resp, tokenVars, clientVars>>

StatsCreateMood ==
  \E caller \in Clients, body \in StatsMoodBodies :
    /\ createMood(caller, body)
    /\ moodSeq' + journalSeq' <= MaxEntries
    /\ UNCHANGED <<tokenVars, clientVars, now>>

StatsCreateJournal ==
  \E caller \in Clients, body \in StatsJournalBodies :
    /\ createJournal(caller, body)
    /\ moodSeq' + journalSeq' <= MaxEntries
    /\ UNCHANGED <<tokenVars, clientVars, now>>

GetMoods ==
  \E caller \in Clients, query \in ListQueries :
    getMoods(caller, query) /\ UNCHANGED <<tokenVars, clientVars, now>>

GetJournals ==
  \E caller \in Clients, query \in ListQueries :
    getJournals(caller, query) /\ UNCHANGED <<tokenVars, clientVars, now>>

GetMoodStats ==
  \E caller \in Clients :
    getMoodStats(caller) /\ UNCHANGED <<tokenVars, clientVars, now>>

GetMoodInsights ==
  \E caller \in Clients :
    getMoodInsights(caller) /\ UNCHANGED <<tokenVars, clientVars, now>>

GetJournalStats ==
  \E caller \in Clients :
    getJournalStats(caller) /\ UNCHANGED <<tokenVars, clientVars, now>>

NextStats ==
  \/ Tick
  \/ StatsCreateMood
  \/ StatsCreateJournal
  \/ GetMoods
  \/ GetJournals
  \/ GetMoodStats
  \/ GetMoodInsights
  \/ GetJournalStats

SpecStats == InitStats /\ [][NextStats]_vars

\* ---------------------------------------------- the content specification
\* the two users write entries, with and without the fields the save hooks
\* fill in, change them and read them back
ContentMoodBodies ==
  [user : {Absent}, mood : {"happy"}, intensity : {IntensityMax},
   note : {Absent, "", "walked"}, activities : {<< >>}, tags : {<< >>, <<"outdoors">>}]

ContentJournalBodies ==
  [user : {Absent}, content : {Absent, "happy day", "sad and angry"}, emotion : {Absent},
   sentimentScore : {NoScore, 0, ScoreMax}, tags : {<< >>}, mood : {RatingMax}]

ContentCreateMood ==
  \E caller \in Clients, body \in ContentMoodBodies :
    /\ createMood(caller, body)
    /\ moodSeq' + journalSeq' <= MaxEntries
    /\ UNCHANGED <<tokenVars, clientVars, now>>

ContentGetMood ==
  \E caller \in Clients, id \in EntryIds :
    getMood(caller, id) /\ UNCHANGED <<tokenVars, clientVars, now>>

ContentCreateJournal ==
  \E caller \in Clients, body \in ContentJournalBodies :
    /\ createJournal(caller, body)
    /\ moodSeq' + journalSeq' <= MaxEntries
    /\ UNCHANGED <<tokenVars, clientVars, now>>

ContentUpdateJournal ==
  \E caller \in Clients, id \in EntryIds, body \in ContentJournalBodies :
    updateJournal(caller, id, body) /\ UNCHANGED <<tokenVars, clientVars, now>>

ContentGetJournal ==
  \E caller \in Clients, id \in EntryIds :
    getJournal(caller, id) /\ UNCHANGED <<tokenVars, clientVars, now>>

NextContent ==
  \/ ContentCreateMood
  \/ ContentGetMood
  \/ ContentCreateJournal
  \/ ContentUpdateJournal
  \/ ContentGetJournal

SpecContent == InitStats /\ [][NextContent]_vars

\* --------------------------------------------------- chat and sentiment
\* what a call of openai.chat.completions.create comes to: it fails, or it
\* answers; for the sentiment prompt the answer is the parsed JSON object
Failed == "failed"
Replies == {Failed, "reply"}
NoAnalysis == [failed |-> TRUE]
Analyses ==
  {NoAnalysis} \cup [sentiment : {Absent, "negative", "positive"},
                 score : {NoScore, ScoreMin, ScoreMax}]

\* the texts a request carries; "" is a missing text
Texts == Contents \cup {""}

\* the catch branch of analyzeSentiment: 0.2 for each positive word the
\* text includes, -0.2 for each negative word, clamped to -1 .. 1 (in
\* fifths); positive above 0.1, negative below -0.1
keywordSentiment(text) ==
  LET raw == Cardinality(Includes[text] \cap positiveWords)
               - Cardinality(Includes[text] \cap negativeWords)
      score == Max(ScoreMin, Min(ScoreMax, raw))
  IN [sentiment |-> IF score >= 1 THEN "positive"
                     ELSE IF score <= 0 - 1 THEN "negative" ELSE "neutral",
      score |-> score]

\* analyzeSentiment: the service's answer, with result.sentiment ||
\* 'neutral' and parseFloat(result.score) || 0, or the keyword fallback
\* when the call fails
analyzeSentiment_rethrow(text, analysis) ==
  IF analysis = NoAnalysis THEN NULL
  ELSE [sentiment |-> IF analysis.sentiment = Absent THEN "neutral" ELSE analysis.sentiment,
        score |-> IF analysis.score = NoScore THEN 0 ELSE analysis.score]

analyzeSentiment(text, analysis) ==
  IF analysis = NoAnalysis THEN keywordSentiment(text)
  ELSE [sentiment |-> IF analysis.sentiment = Absent THEN "neutral" ELSE analysis.sentiment,
        score |-> IF analysis.score = NoScore THEN 0 ELSE analysis.score]

\* getSupportResources: two resources, and a third for a negative sentiment
getSupportResources(result) ==
  IF result.sentiment = "negative" THEN <<"crisis", "breathing", "meditation">>
  ELSE <<"crisis", "breathing">>

\* the inputs of a chat request: the text and what the service does
ChatInput(text, reply, analysis) ==
  [user |-> Absent, text |-> text, reply |-> reply, analysis |-> analysis]

\* POST /chat/analyze
analyzeText(caller, text, analysis) ==
  LET in == ChatInput(text, Absent, analysis)
      result == analyzeSentiment(text, analysis)
  IN
  /\ resp' = IF text = ""
               THEN Response("chat", "analyze", caller, 0, in, 400, NULL)
             ELSE IF result = NULL
               THEN Response("chat", "analyze", caller, 0, in, 500, NULL)
             ELSE Response("chat", "analyze", caller, 0, in, 200, [sentiment |-> result])
  /\ UNCHANGED <<moods, journals, moodSeq, journalSeq>>

\* POST /chat: the reply of the service, the sentiment of the message and
\* resources when the score is below -0.5
chat(caller, message, reply, analysis) ==
  LET in == ChatInput(message, reply, analysis)
      result == analyzeSentiment(message, analysis)
  IN
  /\ resp' = IF message = ""
               THEN Response("chat", "chat", caller, 0, in, 400, NULL)
             ELSE IF reply = Failed \/ result = NULL
               THEN Response("chat", "chat", caller, 0, in, 500, NULL)
             ELSE Response("chat", "chat", caller, 0, in, 200,
                           [response |-> reply, sentiment |-> result,
                            resources |-> IF 2 * result.score < 0 - 5
                                            THEN getSupportResources(result)
                                            ELSE << >>])
  /\ UNCHANGED <<moods, journals, moodSeq, journalSeq>>

Chat ==
  \E caller \in Clients, message \in Texts, reply \in Replies, analysis \in Analyses :
    chat(caller, message, reply, analysis) /\ UNCHANGED <<tokenVars, clientVars, now>>

AnalyzeText ==
  \E caller \in Clients, text \in Texts, analysis \in Analyses :
    analyzeText(caller, text, analysis) /\ UNCHANGED <<tokenVars, clientVars, now>>

NextChat ==
  \/ Chat
  \/ AnalyzeText

SpecChat == InitStats /\ [][NextChat]_vars


\* ------------------------------------------ the concurrency specification
\* update and delete requests are handled concurrently: a handler runs up
\* to its first await (findById and the checks on what it found) and later
\* from its second (findByIdAndUpdate / remove) to the response
CallIds == 1..MaxCalls

NoCall == [pc |-> "none"]

MoodPatches ==
  [user : {Absent}, mood : {Absent}, intensity : {IntensityMax, IntensityMax + 1},
   note : {Absent}, activities : {<< >>}, tags : {<< >>}]

JournalPatches ==
  [user : {Absent}, content : {Absent}, emotion : {Absent}, sentimentScore : {NoScore},
   tags : {<< >>}, mood : {RatingMax, RatingMax + 1}]

Patches(rtype) == IF rtype = "mood" THEN MoodPatches ELSE JournalPatches

StoreOf(rtype) == IF rtype = "mood" THEN moods ELSE journals

NotAuthorized(rtype, doc, caller) ==
  IF rtype = "mood" THEN moodNotAuthorized(doc, caller)
  ELSE journalNotAuthorized(doc, caller)

PatchValid(rtype, patch) ==
  IF rtype = "mood" THEN moodPatchValid(patch) ELSE journalPatchValid(patch)

ApplyPatch(rtype, doc, patch) ==
  IF rtype = "mood" THEN moodApplyPatch(doc, patch) ELSE journalApplyPatch(doc, patch)

\* the collection of `rtype` becomes `store`
Write(rtype, store) ==
  IF rtype = "mood" THEN moods' = store /\ UNCHANGED journals
  ELSE journals' = store /\ UNCHANGED moods

\* the call answers
Answer(c, status, data) ==
  /\ calls' = [calls EXCEPT ![c].pc = "done", ![c].status = status, ![c].data = data]
  /\ resp' = Response(calls[c].rtype, calls[c].op, calls[c].caller, calls[c].id,
                      calls[c].body, status, data)

\* a handler up to its second await: findById, 404 when there is no
\* entry, 401 when the caller may not touch it
findById(c, rtype, op, caller, id, body) ==
  LET doc == StoreOf(rtype)[id]
      call == [pc |-> "found", rtype |-> rtype, op |-> op, caller |-> caller, id |-> id,
               body |-> body, status |-> 0, data |-> NULL]
      answer(status) ==
        /\ calls' = [calls EXCEPT ![c] = [call EXCEPT !.pc = "done", !.status = status]]
        /\ resp' = Response(rtype, op, caller, id, body, status, NULL)
  IN
  /\ IF doc = NULL THEN answer(404)
     ELSE IF NotAuthorized(rtype, doc, caller) THEN answer(401)
     ELSE calls' = [calls EXCEPT ![c] = call] /\ UNCHANGED resp
  /\ UNCHANGED <<moods, journals, moodSeq, journalSeq>>

\* Model.findByIdAndUpdate(id, body, {new: true, runValidators: true}) and
\* the response: the validators reject the body, or the entry as updated
\* is returned, or null when there is no entry with the id any more
findByIdAndUpdate(c) ==
  LET call == calls[c]
      doc == StoreOf(call.rtype)[call.id]
  IN
  IF ~PatchValid(call.rtype, call.body)
    THEN Answer(c, 400, NULL) /\ UNCHANGED <<moods, journals>>
  ELSE IF doc = NULL
    THEN Answer(c, 200, NULL) /\ UNCHANGED <<moods, journals>>
  ELSE /\ Answer(c, 200, ApplyPatch(call.rtype, doc, call.body))
       /\ Write(call.rtype, [StoreOf(call.rtype) EXCEPT
                               ![call.id] = ApplyPatch(call.rtype, doc, call.body)])

\* doc.remove() and the response: the entry is deleted if it is there
remove(c) ==
  /\ Answer(c, 200, NULL)
  /\ Write(calls[c].rtype, [StoreOf(calls[c].rtype) EXCEPT ![calls[c].id] = NULL])

\* slots are used in order
FreeCall(c) == calls[c] = NoCall /\ (IF c = 1 THEN TRUE ELSE calls[c - 1] # NoCall)

\* one Mood entry and one Journal entry are stored, both owned by u1
InitConcurrent ==
  /\ moods = [id \in EntryIds |->
                IF id = 1
                  THEN moodPreSave(moodDocument(
                         [user |-> "u1", mood |-> "happy", intensity |-> IntensityMin,
                          note |-> Absent, activities |-> << >>, tags |-> << >>], 0))
                  ELSE NULL]
  /\ journals = [id \in EntryIds |->
                   IF id = 1
                     THEN journalPreSave(journalDocument(
                            [user |-> "u1", content |-> "fine", emotion |-> Absent,
                             sentimentScore |-> NoScore, tags |-> << >>,
                             mood |-> RatingMin], 0), TRUE)
                     ELSE NULL]
  /\ moodSeq = 1
  /\ journalSeq = 1
  /\ resp = NoResponse
  /\ now = 0
  /\ TokenInit
  /\ AuthInit
  /\ calls = [c \in CallIds |-> NoCall]
  /\ protectedRoute = Unmounted
  /\ storageHook = Unmounted
  /\ infiniteScroll = Unmounted
  /\ apiRequest = Unmounted

ConcurrentFrame ==
  UNCHANGED <<moodSeq, journalSeq, now, tokenVars, localToken, defaultAuth, location,
              user, isAuthenticated, interceptorId, refreshTokenRequest, renewCalls,
              renewOutcome, req, hookVars>>

\* PUT /mood/:id or /journal/:id arrives; updateMood / updateJournal run
\* up to findByIdAndUpdate
UpdateFinds ==
  \E c \in CallIds, rtype \in {"mood", "journal"}, caller \in Clients, id \in EntryIds :
    \E body \in Patches(rtype) :
      /\ FreeCall(c)
      /\ findById(c, rtype, "update", caller, id, body)
      /\ ConcurrentFrame

\* DELETE /mood/:id or /journal/:id arrives; deleteMood / deleteJournal
\* run up to remove
DeleteFinds ==
  \E c \in CallIds, rtype \in {"mood", "journal"}, caller \in Clients, id \in EntryIds :
    /\ FreeCall(c)
    /\ findById(c, rtype, "delete", caller, id, NoBody)
    /\ ConcurrentFrame

UpdateWrites ==
  \E c \in CallIds :
    /\ calls[c].pc = "found"
    /\ calls[c].op = "update"
    /\ findByIdAndUpdate(c)
    /\ ConcurrentFrame

DeleteRemoves ==
  \E c \in CallIds :
    /\ calls[c].pc = "found"
    /\ calls[c].op = "delete"
    /\ remove(c)
    /\ ConcurrentFrame

NextConcurrent ==
  \/ UpdateFinds
  \/ DeleteFinds
  \/ UpdateWrites
  \/ DeleteRemoves

SpecConcurrent == InitConcurrent /\ [][NextConcurrent]_vars


\* ================================================================ browser
\* `protect` (middleware/auth): the request carries a token that the server
\* issued and that has not expired; req.user is the user it was issued to
protect(token) == token > expired /\ token < nextToken

\* request interceptor of `api`: localStorage 'token', when there is one,
\* replaces the Authorization header of the request
requestInterceptor(header, local) == IF local # NoToken THEN local ELSE header

\* request interceptor of `http`: the same, on an instance whose defaults
\* carry no Authorization header
httpRequestInterceptor(header, local) == IF local # NoToken THEN local ELSE header

\* error.response?.status !== 401 || originalRequest._retry
responseInterceptorRejects_always401(status, retry) == status # 401

responseInterceptorRejects(status, retry) == status # 401 \/ retry

\* the same test in the interceptor of setupResponseInterceptor; an error
\* without config (the ApiError of handleApiError) with status 401 throws
\* on originalRequest._retry, which rejects as well
setupInterceptorRejects(status, hasConfig, retry) ==
  status # 401 \/ ~hasConfig \/ retry

\* if (refreshTokenRequest) { await refreshTokenRequest ... }
refreshTokenJoins_never == FALSE

refreshTokenJoins == refreshTokenRequest # 0

\* the renewal a call of authService.refreshToken() awaits
AwaitedRenewal == IF refreshTokenJoins THEN refreshTokenRequest ELSE renewCalls + 1

\* authService.refreshToken() up to its await: join the pending call or
\* issue POST /auth/refresh-token and publish its promise
refreshTokenCall ==
  IF refreshTokenJoins
    THEN UNCHANGED <<refreshTokenRequest, renewCalls, renewOutcome>>
    ELSE /\ renewCalls' = renewCalls + 1
         /\ refreshTokenRequest' = renewCalls + 1
         /\ renewOutcome' = Append(renewOutcome,
                               [st |-> "inflight", status |-> 0, token |-> NoToken])

\* the interceptor enters the renewal path: _retry = true, refreshToken()
EnterRenewal(rq, by) ==
  [rq EXCEPT !.st = "awaitRenew", !.retry = TRUE, !.by = by,
             !.ren = AwaitedRenewal, !.joined = refreshTokenJoins]

Rejected(rq, err, status) ==
  [rq EXCEPT !.st = "rejected", !.err = err, !.status = status]

\* the response interceptors of `api`, in the order they were installed,
\* on the answer `status` to request r
apiResponse(r, status, cause) ==
  LET got == [req[r] EXCEPT !.status = status, !.cause = cause] IN
  IF status = 200
    THEN /\ req' = [req EXCEPT ![r] = [got EXCEPT !.st = "ok"]]
         /\ UNCHANGED <<refreshTokenRequest, renewCalls, renewOutcome>>
  ELSE IF ~responseInterceptorRejects(status, got.retry)
    THEN /\ req' = [req EXCEPT ![r] = EnterRenewal(got, "module")]
         /\ refreshTokenCall
  ELSE IF interceptorId # "null" /\ ~setupInterceptorRejects(status, TRUE, got.retry)
    THEN /\ req' = [req EXCEPT ![r] = EnterRenewal(got, "setup")]
         /\ refreshTokenCall
  ELSE /\ req' = [req EXCEPT ![r] = Rejected(got, "response", status)]
       /\ UNCHANGED <<refreshTokenRequest, renewCalls, renewOutcome>>

\* slots are used in order
Free(r) == req[r].st = "idle" /\ (IF r = 1 THEN TRUE ELSE req[r - 1].st # "idle")

\* ------------------------------------------------------------ AuthProvider
\* the user of the refresh cookie: the one the last token was issued to
SessionUser == tokenUser[nextToken - 1]

\* the server accepts the credentials and issues a token
IssueToken(u) ==
  /\ nextToken <= MaxTokens
  /\ nextToken' = nextToken + 1
  /\ UNCHANGED expired
  /\ tokenUser' = Append(tokenUser, u)

\* login(): setUser, setIsAuthenticated, authService.setAuthToken(token)
Login ==
  \E u \in Clients :
    /\ IssueToken(u)
    /\ user' = u
    /\ isAuthenticated' = TRUE
    /\ defaultAuth' = nextToken
    /\ location' = "/dashboard"
    /\ UNCHANGED <<serverVars, localToken, passiveVars, refreshTokenRequest,
                   renewCalls, renewOutcome, req>>

\* register(): as login()
Register ==
  \E u \in Clients :
    /\ IssueToken(u)
    /\ user' = u
    /\ isAuthenticated' = TRUE
    /\ defaultAuth' = nextToken
    /\ location' = "/dashboard"
    /\ UNCHANGED <<serverVars, localToken, passiveVars, refreshTokenRequest,
                   renewCalls, renewOutcome, req>>

\* logout(): authService.logout is not defined, the call throws and is
\* caught; finally: setUser(null), clearAuthToken(), navigate('/login')
Logout ==
  /\ user' = NoUser
  /\ isAuthenticated' = FALSE
  /\ defaultAuth' = NoToken
  /\ location' = "/login"
  /\ UNCHANGED <<serverVars, tokenVars, localToken, passiveVars,
                 refreshTokenRequest, renewCalls, renewOutcome, req>>

\* the context's refreshToken(): refreshTokenHandler -> authService.refreshToken()
ContextRefreshToken ==
  \E r \in Reqs :
    /\ Free(r)
    /\ req' = [req EXCEPT ![r] = EnterRenewal([req[r] EXCEPT !.via = "ctx"], "ctx")]
    /\ refreshTokenCall
    /\ UNCHANGED <<serverVars, tokenVars, localToken, defaultAuth, location, user,
                   isAuthenticated, passiveVars>>

\* -------------------------------------------------------------- requests
\* a protected call of authService (getMe, updateDetails, ...) through `api`
SendApi ==
  \E r \in Reqs :
    /\ Free(r)
    /\ req' = [req EXCEPT ![r].st = "sent", ![r].via = "api", ![r].sends = 1,
                          ![r].auth = requestInterceptor(defaultAuth, localToken)]
    /\ UNCHANGED <<serverVars, tokenVars, localToken, defaultAuth, location, user,
                   isAuthenticated, passiveVars, refreshTokenRequest, renewCalls,
                   renewOutcome>>

\* GET /mood/:id through `http` (useApiRequest)
SendHttp ==
  \E r \in Reqs, id \in MoodIds :
    /\ Free(r)
    /\ req' = [req EXCEPT ![r].st = "sent", ![r].via = "http", ![r].sends = 1,
                          ![r].id = id,
                          ![r].auth = httpRequestInterceptor(NoToken, localToken)]
    /\ UNCHANGED <<serverVars, tokenVars, localToken, defaultAuth, location, user,
                   isAuthenticated, passiveVars, refreshTokenRequest, renewCalls,
                   renewOutcome>>

\* the access token expires
ExpireToken ==
  /\ expired + 1 < nextToken
  /\ expired' = expired + 1
  /\ UNCHANGED <<serverVars, tokenUser, nextToken, clientVars>>

\* the server answers a request sent through `api`: 401 from `protect`,
\* else the controller's answer (200, or 500 when it fails)
RespondApi ==
  \E r \in Reqs :
    /\ req[r].via = "api"
    /\ req[r].st \in {"sent", "retrySent"}
    /\ \E status \in (IF protect(req[r].auth) THEN {200, 500} ELSE {401}) :
         apiResponse(r, status,
                     IF status = 401 THEN "unauthenticated"
                     ELSE IF status = 200 THEN "ok" ELSE "internal")
    /\ UNCHANGED <<serverVars, tokenVars, localToken, defaultAuth, location, user,
                   isAuthenticated, passiveVars>>

\* the response interceptor of `http`: on 401 remove the token and go to
\* /login; every error is rejected
httpResponse(r, status, cause) ==
  /\ req' = [req EXCEPT ![r].status = status, ![r].cause = cause,
                        ![r].st = IF status = 200 THEN "ok" ELSE "rejected",
                        ![r].err = IF status = 200 THEN "none" ELSE "response"]
  /\ localToken' = IF status = 401 THEN NoToken ELSE localToken
  /\ location' = IF status = 401 /\ location # "/login" THEN "/login" ELSE location

\* the server answers GET /mood/:id: `protect`, then getMood
RespondHttp ==
  \E r \in Reqs :
    /\ req[r].via = "http"
    /\ req[r].st = "sent"
    /\ IF protect(req[r].auth)
         THEN /\ getMood(tokenUser[req[r].auth], req[r].id)
              /\ httpResponse(r, resp'.status,
                              CASE resp'.status = 200 -> "ok"
                                [] resp'.status = 401 -> "notAuthorized"
                                [] OTHER -> "notFound")
         ELSE /\ httpResponse(r, 401, "unauthenticated")
              /\ UNCHANGED serverVars
    /\ UNCHANGED <<now, tokenVars, defaultAuth, user, isAuthenticated, passiveVars,
                   refreshTokenRequest, renewCalls, renewOutcome>>

\* ---------------------------------------------------------------- renewal
\* the callers whose refreshToken() awaits promise k (the one that issued
\* the call and those that found it in refreshTokenRequest)
Waiters_issuerOnly(k) ==
  {r \in Reqs : req[r].st = "awaitRenew" /\ req[r].ren = k /\ ~req[r].joined}

Waiters(k) == {r \in Reqs : req[r].st = "awaitRenew" /\ req[r].ren = k}

WaitersBy(k, by) == {r \in Waiters(k) : req[r].by = by}

InFlight == {k \in 1..renewCalls : renewOutcome[k].st = "inflight"}

\* the module interceptor after refreshToken() resolved:
\* localStorage.setItem('token', token), set the header, api(originalRequest)
moduleRetry(rq, token) ==
  [rq EXCEPT !.st = "retrySent", !.sends = @ + 1,
             !.auth = requestInterceptor(token, token)]

\* the installed interceptor after onTokenRefresh() resolved: set the header,
\* api(originalRequest); refreshTokenHandler has called setAuthToken(token)
setupRetry(rq, token, local) ==
  [rq EXCEPT !.st = "retrySent", !.sends = @ + 1,
             !.auth = requestInterceptor(token, local)]

\* POST /auth/refresh-token is answered 200 {token}: every caller awaiting
\* the promise resumes, clears refreshTokenRequest and goes on
RenewalSucceeds ==
  \E k \in InFlight :
    LET token == nextToken
        newLocal == IF WaitersBy(k, "module") # {} THEN token ELSE localToken
    IN
    /\ nextToken > 1
    /\ IssueToken(SessionUser)
    /\ renewOutcome' = [renewOutcome EXCEPT ![k] =
                          [st |-> "ok", status |-> 200, token |-> token]]
    /\ refreshTokenRequest' = 0
    /\ localToken' = newLocal
    /\ defaultAuth' = IF WaitersBy(k, "setup") \cup WaitersBy(k, "ctx") # {}
                        THEN token ELSE defaultAuth
    /\ req' = [r \in Reqs |->
                 IF r \notin Waiters(k) THEN req[r]
                 ELSE IF req[r].by = "module" THEN moduleRetry(req[r], token)
                 ELSE IF req[r].by = "setup" THEN setupRetry(req[r], token, newLocal)
                 ELSE [req[r] EXCEPT !.st = "ok"]]
    /\ UNCHANGED <<serverVars, location, user, isAuthenticated, passiveVars, renewCalls>>

\* it is answered with an error other than 401 (404: auth.js has no such
\* route): the promise rejects; the module interceptor removes the
\* token, goes to /login and rejects with the refresh error; the installed
\* one calls onUnauthenticated
RenewalFails ==
  \E k \in InFlight, status \in {404} :
    /\ renewOutcome' = [renewOutcome EXCEPT ![k] =
                          [st |-> "failed", status |-> status, token |-> NoToken]]
    /\ refreshTokenRequest' = 0
    /\ localToken' = IF WaitersBy(k, "module") # {} THEN NoToken ELSE localToken
    /\ location' = IF WaitersBy(k, "module") \cup WaitersBy(k, "setup") # {}
                     THEN "/login" ELSE location
    /\ defaultAuth' = IF WaitersBy(k, "setup") # {} THEN NoToken ELSE defaultAuth
    /\ user' = IF WaitersBy(k, "setup") # {} THEN NoUser ELSE user
    /\ isAuthenticated' = IF WaitersBy(k, "setup") # {} THEN FALSE ELSE isAuthenticated
    /\ req' = [r \in Reqs |->
                 IF r \in Waiters(k) THEN Rejected(req[r], "renewal", status) ELSE req[r]]
    /\ UNCHANGED <<serverVars, tokenVars, passiveVars, renewCalls>>

\* it is answered 401 (`protect` rejects the call): the module interceptor
\* handles the error of the renewal call itself; its config has no _retry,
\* so it calls refreshToken(), which finds refreshTokenRequest set and
\* awaits it: the promise now waits for its own interceptor
RenewalUnauthenticated ==
  \E k \in InFlight :
    /\ ~responseInterceptorRejects(401, FALSE)
    /\ refreshTokenJoins
    /\ renewOutcome' = [renewOutcome EXCEPT ![k] =
                          [st |-> "selfwait", status |-> 401, token |-> NoToken]]
    /\ UNCHANGED <<serverVars, tokenVars, localToken, defaultAuth, location, user,
                   isAuthenticated, passiveVars, refreshTokenRequest, renewCalls, req>>

\* ----------------------------------------------- the browser specification
\* one Mood entry, owned by the user u1, is stored
InitGateway ==
  /\ moods = [id \in MoodIds |->
                IF id = 1
                  THEN moodPreSave(moodDocument(
                         [user |-> "u1", mood |-> "happy", intensity |-> IntensityMin,
                          note |-> Absent, activities |-> << >>, tags |-> << >>], 0))
                  ELSE NULL]
  /\ journals = [id \in JournalIds |-> NULL]
  /\ moodSeq = 1
  /\ journalSeq = 0
  /\ resp = NoResponse
  /\ now = 0
  /\ TokenInit
  /\ ClientInit

NextGateway ==
  \/ Login
  \/ Register
  \/ Logout
  \/ ContextRefreshToken
  \/ SendApi
  \/ SendHttp
  \/ ExpireToken
  \/ RespondApi
  \/ RespondHttp
  \/ RenewalSucceeds
  \/ RenewalFails
  \/ RenewalUnauthenticated

SpecGateway == InitGateway /\ [][NextGateway]_vars

\* the server answers every request it is sent
FairSpecGateway ==
  /\ SpecGateway
  /\ WF_vars(RespondApi)
  /\ WF_vars(RespondHttp)
  /\ WF_vars(RenewalSucceeds \/ RenewalFails \/ RenewalUnauthenticated)

\* ========================================================== useLocalStorage
\* the hook keeps a number under one key, with parseJSON and without ttl
NoItem == "null"                  \* localStorage.getItem(key) === null
StoredNumbers == 0..(2 * MaxUpdates + 2)
InitialValues == {0, MaxUpdates + 2}

\* JSON.stringify / JSON.parse of a number
stringify(n) == ToString(n)
parse(item) == CHOOSE n \in StoredNumbers : stringify(n) = item

\* getStoredValue: the initial value when there is no item, else the item
\* parsed
getStoredValue(item, initialValue) ==
  IF item = NoItem THEN initialValue ELSE parse(item)

\* the updater the component passes to setValue: prev => prev + 1
increment(prev) == prev + 1

\* the argument of the updater: setValue calls value(storedValue) with the
\* storedValue of the render that made the callback
updaterArgument(h) == h.closure

\* the hook is mounted: useState(() => getStoredValue())
InitStorage ==
  /\ moods = [id \in MoodIds |-> NULL]
  /\ journals = [id \in JournalIds |-> NULL]
  /\ moodSeq = 0
  /\ journalSeq = 0
  /\ resp = NoResponse
  /\ now = 0
  /\ TokenInit
  /\ AuthInit
  /\ calls = << >>
  /\ protectedRoute = Unmounted
  /\ infiniteScroll = Unmounted
  /\ apiRequest = Unmounted
  /\ \E item \in {NoItem} \cup {stringify(v) : v \in InitialValues},
        initialValue \in InitialValues :
       LET value == getStoredValue(item, initialValue) IN
       storageHook = [mounted |-> TRUE, initialValue |-> initialValue, item |-> item,
                      storedValue |-> value, closure |-> value,
                      base |-> value, updates |-> 0]

StorageFrame ==
  UNCHANGED <<serverVars, tokenVars, localToken, defaultAuth, location, user,
              isAuthenticated, interceptorId, refreshTokenRequest, renewCalls,
              renewOutcome, req, calls, protectedRoute, infiniteScroll, apiRequest>>

\* setValue(prev => prev + 1)
SetValueUpdater ==
  /\ storageHook.updates < MaxUpdates
  /\ increment(updaterArgument(storageHook)) \in StoredNumbers
  /\ LET valueToStore == increment(updaterArgument(storageHook)) IN
     storageHook' = [storageHook EXCEPT !.storedValue = valueToStore,
                                        !.item = stringify(valueToStore),
                                        !.updates = @ + 1]
  /\ StorageFrame

\* setValue(v)
SetValueDirect ==
  /\ \E v \in InitialValues :
       storageHook' = [storageHook EXCEPT !.storedValue = v, !.item = stringify(v),
                                          !.base = v, !.updates = 0]
  /\ StorageFrame

\* removeValue()
RemoveValue ==
  /\ storageHook' = [storageHook EXCEPT !.storedValue = storageHook.initialValue,
                                        !.item = NoItem,
                                        !.base = storageHook.initialValue,
                                        !.updates = 0]
  /\ StorageFrame

\* the component renders again: useCallback makes a setValue that holds
\* the storedValue of this render
RenderStorage ==
  /\ storageHook.closure # storageHook.storedValue
  /\ storageHook' = [storageHook EXCEPT !.closure = storageHook.storedValue]
  /\ StorageFrame

NextStorage ==
  \/ SetValueUpdater
  \/ SetValueDirect
  \/ RemoveValue
  \/ RenderStorage

SpecStorage == InitStorage /\ [][NextStorage]_vars

\* ======================================================== useInfiniteScroll
\* initialData is empty; an item is named by its page and its place in it
InitialPages == {0, 1}
NoLoad == [pending |-> FALSE]

\* what onLoadMore(page, pageSize) resolves to: full pages up to the last
\* page of the data, which is one item short, and nothing after it
onLoadMore(page, lastPage) ==
  IF page < lastPage THEN [i \in 1..PageSize |-> [page |-> page, index |-> i]]
  ELSE IF page = lastPage THEN [i \in 1..(PageSize - 1) |-> [page |-> page, index |-> i]]
  ELSE << >>

\* the state useState starts with and reset() puts back
initialScrollState(initialPage, initialHasMore) ==
  [page |-> initialPage, isLoading |-> FALSE, hasMore |-> initialHasMore,
   items |-> << >>, error |-> FALSE, isInitialLoad |-> TRUE]

\* the functional update of a load that resolved with newItems
loadedState(prev, newItems) ==
  [prev EXCEPT !.page = prev.page + 1,
               !.items = IF prev.isInitialLoad THEN newItems ELSE prev.items \o newItems,
               !.hasMore = Len(newItems) >= PageSize,
               !.isInitialLoad = FALSE]

InitScroll ==
  /\ moods = [id \in MoodIds |-> NULL]
  /\ journals = [id \in JournalIds |-> NULL]
  /\ moodSeq = 0
  /\ journalSeq = 0
  /\ resp = NoResponse
  /\ now = 0
  /\ TokenInit
  /\ AuthInit
  /\ calls = << >>
  /\ protectedRoute = Unmounted
  /\ storageHook = Unmounted
  /\ apiRequest = Unmounted
  /\ \E initialPage \in InitialPages, initialHasMore \in BOOLEAN, lastPage \in 1..MaxPage :
       infiniteScroll = [mounted |-> TRUE, initialPage |-> initialPage,
                         initialHasMore |-> initialHasMore, lastPage |-> lastPage,
                         state |-> initialScrollState(initialPage, initialHasMore),
                         loadingRef |-> FALSE, load |-> NoLoad, loaded |-> << >>]

ScrollFrame ==
  UNCHANGED <<serverVars, tokenVars, localToken, defaultAuth, location, user,
              isAuthenticated, interceptorId, refreshTokenRequest, renewCalls,
              renewOutcome, req, calls, protectedRoute, storageHook, apiRequest>>

\* loadMore() up to its await, called by the initial-load effect, by the
\* scroll handler or by the sentinel's observer
LoadMore ==
  /\ ~infiniteScroll.loadingRef
  /\ infiniteScroll.state.hasMore
  /\ infiniteScroll.state.page <= MaxPage
  /\ infiniteScroll' =
       [infiniteScroll EXCEPT !.loadingRef = TRUE,
                              !.state = [@ EXCEPT !.isLoading = TRUE, !.error = FALSE],
                              !.load = [pending |-> TRUE, page |-> infiniteScroll.state.page,
                                        sinceReset |-> TRUE]]
  /\ ScrollFrame

\* onLoadMore resolves: loadMore goes on after its await
LoadResolves ==
  /\ infiniteScroll.load.pending
  /\ LET newItems == onLoadMore(infiniteScroll.load.page, infiniteScroll.lastPage) IN
     infiniteScroll' =
       [infiniteScroll EXCEPT !.state = [loadedState(@, newItems) EXCEPT !.isLoading = FALSE],
                              !.loadingRef = FALSE,
                              !.load = NoLoad,
                              !.loaded = IF infiniteScroll.load.sinceReset
                                         THEN Append(@, infiniteScroll.load.page) ELSE @]
  /\ ScrollFrame

\* onLoadMore rejects: the catch and the finally of loadMore
LoadRejects ==
  /\ infiniteScroll.load.pending
  /\ infiniteScroll' =
       [infiniteScroll EXCEPT !.state = [@ EXCEPT !.error = TRUE, !.isLoading = FALSE],
                              !.loadingRef = FALSE,
                              !.load = NoLoad]
  /\ ScrollFrame

\* reset()
ResetScroll ==
  /\ infiniteScroll' =
       [infiniteScroll EXCEPT !.state = initialScrollState(infiniteScroll.initialPage,
                                                           infiniteScroll.initialHasMore),
                              !.load = IF @.pending THEN [@ EXCEPT !.sinceReset = FALSE] ELSE @,
                              !.loaded = << >>]
  /\ ScrollFrame

NextScroll ==
  \/ LoadMore
  \/ LoadResolves
  \/ LoadRejects
  \/ ResetScroll

SpecScroll == InitScroll /\ [][NextScroll]_vars

\* ============================================================ useApiRequest
\* one hook instance; calls of its makeRequest take the slots of `calls`
NoToast == 0                      \* loadingToastId.current === null
Settled == [pending |-> FALSE]

InitApiRequest ==
  /\ moods = [id \in MoodIds |-> NULL]
  /\ journals = [id \in JournalIds |-> NULL]
  /\ moodSeq = 0
  /\ journalSeq = 0
  /\ resp = NoResponse
  /\ now = 0
  /\ TokenInit
  /\ AuthInit
  /\ calls = [c \in CallIds |-> Settled]
  /\ protectedRoute = Unmounted
  /\ storageHook = Unmounted
  /\ infiniteScroll = Unmounted
  /\ \E showLoading \in BOOLEAN :
       apiRequest = [mounted |-> TRUE, showLoading |-> showLoading,
                     loadingToastId |-> NoToast, toasts |-> {}, shown |-> 0,
                     state |-> [isLoading |-> FALSE, isSuccess |-> FALSE, error |-> FALSE]]

ApiRequestFrame ==
  UNCHANGED <<serverVars, tokenVars, localToken, defaultAuth, location, user,
              isAuthenticated, interceptorId, refreshTokenRequest, renewCalls,
              renewOutcome, req, protectedRoute, storageHook, infiniteScroll>>

\* the finally block of makeRequest: dismiss the notification the ref names
dismissLoading(h) ==
  IF h.loadingToastId # NoToast
  THEN [h EXCEPT !.toasts = @ \ {h.loadingToastId}, !.loadingToastId = NoToast]
  ELSE h

\* makeRequest(data) up to its await
MakeRequest ==
  /\ \E c \in CallIds :
       /\ ~calls[c].pending
       /\ apiRequest.showLoading => apiRequest.shown < MaxToasts
       /\ LET id == apiRequest.shown + 1
              started == [apiRequest EXCEPT !.state = [isLoading |-> TRUE, isSuccess |-> FALSE,
                                                       error |-> FALSE]] IN
          IF apiRequest.showLoading
          THEN /\ apiRequest' = [started EXCEPT !.loadingToastId = id,
                                                !.toasts = @ \cup {id},
                                                !.shown = id]
               /\ calls' = [calls EXCEPT ![c] = [pending |-> TRUE, toast |-> id]]
          ELSE /\ apiRequest' = started
               /\ calls' = [calls EXCEPT ![c] = [pending |-> TRUE, toast |-> NoToast]]
  /\ ApiRequestFrame

\* the request resolves: the try block after the await, then finally
RequestSucceeds ==
  /\ \E c \in CallIds :
       /\ calls[c].pending
       /\ calls' = [calls EXCEPT ![c] = Settled]
       /\ apiRequest' =
            dismissLoading([apiRequest EXCEPT !.state = [isLoading |-> FALSE, isSuccess |-> TRUE,
                                                         error |-> FALSE]])
  /\ ApiRequestFrame

\* the request rejects: the catch block, then finally
RequestFails ==
  /\ \E c \in CallIds :
       /\ calls[c].pending
       /\ calls' = [calls EXCEPT ![c] = Settled]
       /\ apiRequest' =
            dismissLoading([apiRequest EXCEPT !.state = [isLoading |-> FALSE, isSuccess |-> FALSE,
                                                         error |-> TRUE]])
  /\ ApiRequestFrame

NextApiRequest ==
  \/ MakeRequest
  \/ RequestSucceeds
  \/ RequestFails

SpecApiRequest == InitApiRequest /\ [][NextApiRequest]_vars

\* =========================================================== ProtectedRoute
\* the props of a protected route; Absent is a prop that is not given
RequiredRoles == {Absent, "user", "admin"}
RedirectTargets == {Absent, "/"}

\* user?.role
RoleOf(u) == IF u = NoUser THEN Absent ELSE Role[u]

\* what ProtectedRoute returns: the spinner while loading, a Navigate to
\* redirectTo (default '/login') when not authenticated or when the role
\* required is not the user's, else the children, or the Outlet of the
\* nested routes when it has no children
ProtectedRoute_noRoleCheck(children, requiredRole, redirectTo, loading, authenticated, u) ==
  LET to == IF redirectTo = Absent THEN "/login" ELSE redirectTo IN
  IF loading THEN [shows |-> "spinner", to |-> Absent]
  ELSE IF ~authenticated THEN [shows |-> "navigate", to |-> to]
  ELSE [shows |-> IF children THEN "children" ELSE "outlet", to |-> Absent]

ProtectedRoute(children, requiredRole, redirectTo, loading, authenticated, u) ==
  LET to == IF redirectTo = Absent THEN "/login" ELSE redirectTo IN
  IF loading THEN [shows |-> "spinner", to |-> Absent]
  ELSE IF ~authenticated THEN [shows |-> "navigate", to |-> to]
  ELSE IF requiredRole # Absent /\ RoleOf(u) # requiredRole
    THEN [shows |-> "navigate", to |-> to]
  ELSE [shows |-> IF children THEN "children" ELSE "outlet", to |-> Absent]

\* a route is mounted with its props while the AuthProvider is loading
InitRoute ==
  /\ moods = [id \in MoodIds |-> NULL]
  /\ journals = [id \in JournalIds |-> NULL]
  /\ moodSeq = 0
  /\ journalSeq = 0
  /\ resp = NoResponse
  /\ now = 0
  /\ TokenInit
  /\ AuthInit
  /\ calls = << >>
  /\ storageHook = Unmounted
  /\ infiniteScroll = Unmounted
  /\ apiRequest = Unmounted
  /\ \E children \in BOOLEAN, requiredRole \in RequiredRoles,
        redirectTo \in RedirectTargets :
       protectedRoute =
         [mounted |-> TRUE, children |-> children,
          requiredRole |-> requiredRole, redirectTo |-> redirectTo,
          isLoading |-> TRUE, isAuthenticated |-> FALSE, user |-> NoUser,
          rendered |-> ProtectedRoute(children, requiredRole, redirectTo,
                                      TRUE, FALSE, NoUser)]

\* the auth context changes and the route renders again
RenderRoute ==
  /\ \E loading \in BOOLEAN, authenticated \in BOOLEAN, u \in Users \cup {NoUser} :
       protectedRoute' =
         [protectedRoute EXCEPT
            !.isLoading = loading, !.isAuthenticated = authenticated, !.user = u,
            !.rendered = ProtectedRoute(protectedRoute.children,
                                        protectedRoute.requiredRole,
                                        protectedRoute.redirectTo,
                                        loading, authenticated, u)]
  /\ UNCHANGED <<serverVars, tokenVars, localToken, defaultAuth, location, user,
                 isAuthenticated, interceptorId, refreshTokenRequest, renewCalls,
                 renewOutcome, req, calls, storageHook, infiniteScroll, apiRequest>>

NextRoute == RenderRoute

SpecRoute == InitRoute /\ [][NextRoute]_vars

\* the collection a response is about, and the document it addressed
Collection(rtype) == IF rtype = "mood" THEN moods ELSE journals

Addressed(r) ==
  IF r.op \in {"get", "update", "delete"} /\ r.rtype \in {"mood", "journal"}
    THEN Collection(r.rtype)[r.id] ELSE NULL

\* ================================================================== claims
\* C1: for an entry owned by B, get / update / delete by A # B is denied
\* unless A is admin (a therapist is denied like a user); a denied request
\* returns no data and leaves both collections as they were; a request by
\* the owner or by an admin is not denied; the decision is the same for
\* Mood and for Journal.
C1_Step ==
  LET r == resp'
      doc == Addressed(r)
  IN doc # NULL =>
       IF doc.user # r.caller /\ Role[r.caller] # "admin"
         THEN /\ r.status = 401
              /\ r.data = NULL
              /\ moods' = moods
              /\ journals' = journals
         ELSE r.status # 401

C1_OwnershipGuard == [][C1_Step]_vars

\* a therapist was denied another user's entry, which is still stored
C1_Witness ==
  /\ resp.op \in {"get", "update", "delete"}
  /\ resp.status = 401
  /\ Role[resp.caller] = "therapist"
  /\ Addressed(resp) # NULL
  /\ Addressed(resp).user # resp.caller

\* C2: an entry created through createMood / createJournal is owned by the
\* authenticated caller, whatever user the request body carried.
C2_Step ==
  /\ \A id \in MoodIds :
       (moods[id] = NULL /\ moods'[id] # NULL) =>
         (resp'.op = "create" /\ moods'[id].user = resp'.caller)
  /\ \A id \in JournalIds :
       (journals[id] = NULL /\ journals'[id] # NULL) =>
         (resp'.op = "create" /\ journals'[id].user = resp'.caller)

C2_OwnerIsCreator == [][C2_Step]_vars

\* an entry was created from a body naming another user as owner
C2_Witness ==
  /\ resp.op = "create"
  /\ resp.status = 201
  /\ resp.bodyUser \in Users \ {resp.caller}
  /\ resp.data.user = resp.caller

\* C3 (as claimed): the owner of a stored entry never changes.
C3_Step ==
  /\ \A id \in MoodIds :
       (moods[id] # NULL /\ moods'[id] # NULL) => moods'[id].user = moods[id].user
  /\ \A id \in JournalIds :
       (journals[id] # NULL /\ journals'[id] # NULL) =>
         journals'[id].user = journals[id].user

C3_OwnerImmutable == [][C3_Step]_vars

\* C4: token renewal is single-flight.  At most one POST /auth/refresh-token
\* is in flight, and a request that receives a 401 while a renewal is
\* pending issues no call of its own: it awaits the pending one.
Pending == {k \in 1..renewCalls : renewOutcome[k].st \in {"inflight", "selfwait"}}

C4_Step ==
  /\ Cardinality(InFlight') <= 1
  /\ \A r \in Reqs :
       (req[r].st # "awaitRenew" /\ req'[r].st = "awaitRenew" /\ Pending # {}) =>
         (renewCalls' = renewCalls /\ req'[r].ren \in Pending)

C4_SingleFlight == [][C4_Step]_vars

\* two requests got a 401 and await the one renewal call that was issued
C4_Witness ==
  /\ renewCalls = 1
  /\ \E r1, r2 \in Reqs :
       /\ r1 # r2
       /\ req[r1].via = "api" /\ req[r2].via = "api"
       /\ req[r1].st = "awaitRenew" /\ req[r2].st = "awaitRenew"
       /\ req[r1].cause = "unauthenticated" /\ req[r2].cause = "unauthenticated"
       /\ req[r1].ren = 1 /\ req[r2].ren = 1
       /\ req[r2].joined

C6_Step ==
  \A r \in Reqs :
    /\ req'[r].sends <= 2
    /\ (req[r].st = "retrySent" /\ req'[r].st # "retrySent" /\ req'[r].status = 401) =>
         /\ req'[r].st = "rejected"
         /\ req'[r].err = "response"
         /\ req'[r].sends = req[r].sends
         /\ renewCalls' = renewCalls
         /\ refreshTokenRequest' = refreshTokenRequest

C6_RetryOnce == [][C6_Step]_vars

\* a request sent again after a renewal got a second 401 and is rejected
C6_Witness ==
  /\ interceptorId = "installed"
  /\ \E r \in Reqs :
       /\ req[r].via = "api"
       /\ req[r].retry
       /\ req[r].sends = 2
       /\ req[r].st = "rejected"
       /\ req[r].status = 401
       /\ renewOutcome[req[r].ren].st = "ok"

\* C7 (as claimed): a request that got a 401, and any other caller awaiting
\* the renewal, eventually completes, the server answering every request.
C7_EventuallyCompletes ==
  \A r \in Reqs : (req[r].st = "awaitRenew") ~> (req[r].st \in {"ok", "rejected"})

\* C8 (as claimed): when the renewal call fails, the stored token is
\* removed, the browser is at /login and every request awaiting the
\* renewal is rejected without having been sent again.
C8_Step ==
  \A k \in 1..renewCalls :
    (/\ renewOutcome[k].st = "inflight"
     /\ renewOutcome'[k].st \in {"failed", "selfwait"}
     /\ WaitersBy(k, "module") # {}) =>
      /\ localToken' = NoToken
      /\ location' = "/login"
      /\ \A r \in WaitersBy(k, "module") :
           req'[r].st = "rejected" /\ req'[r].sends = req[r].sends

C8_RenewalFailureEndsSession == [][C8_Step]_vars

\* C9 (as claimed): a request denied for an ownership / role mismatch is
\* rejected at once; the denial starts no renewal, the request is not sent
\* again, the stored token stays and the browser stays where it is.
C9_Step ==
  \A r \in Reqs :
    (req[r].st = "sent" /\ req'[r].st # "sent" /\ req'[r].cause = "notAuthorized") =>
      /\ req'[r].st = "rejected"
      /\ req'[r].sends = req[r].sends
      /\ renewCalls' = renewCalls
      /\ localToken' = localToken
      /\ location' = location

C9_DenialIsTerminal == [][C9_Step]_vars

\* C10 (as claimed): once a login, registration or renewal has delivered a
\* token, a request sent through `api` carries it and neither localStorage
\* nor the default Authorization header holds an earlier token.
C10_Step ==
  nextToken' # nextToken =>
    /\ requestInterceptor(defaultAuth', localToken') = nextToken
    /\ localToken' \in {NoToken, nextToken}
    /\ defaultAuth' \in {NoToken, nextToken}

C10_StoreReplaced == [][C10_Step]_vars

\* C11 (as claimed): after logout() and until the next login the browser
\* holds no token, neither in localStorage nor in the default Authorization
\* header, a request of `api` carries none, user is null and
\* isAuthenticated is false.
C11_Step ==
  user' = NoUser =>
    /\ ~isAuthenticated'
    /\ localToken' = NoToken
    /\ defaultAuth' = NoToken
    /\ requestInterceptor(defaultAuth', localToken') = NoToken

C11_LogoutDestroysSession == [][C11_Step]_vars

\* C14: get, update and delete of an id for which nothing is stored answer
\* 404 with no data and change nothing; an entry that was deleted is gone,
\* so a second delete of it answers 404.
C14_Step ==
  LET r == resp' IN
  (r.op \in {"get", "update", "delete"} /\ r.rtype \in {"mood", "journal"}) =>
    /\ Collection(r.rtype)[r.id] = NULL =>
         /\ r.status = 404
         /\ r.data = NULL
         /\ moods' = moods
         /\ journals' = journals
    /\ (r.op = "delete" /\ r.status = 200) =>
         (IF r.rtype = "mood" THEN moods' ELSE journals')[r.id] = NULL

C14_NotFound == [][C14_Step]_vars

\* an entry that was created and deleted is deleted a second time: 404
C14_Witness ==
  /\ resp.op = "delete"
  /\ resp.status = 404
  /\ \/ resp.rtype = "mood" /\ resp.id <= moodSeq
     \/ resp.rtype = "journal" /\ resp.id <= journalSeq

\* C15: no Mood entry with intensity outside 1..10 and no Journal entry
\* with mood outside 1..5 is stored; a create, or an update of an entry by
\* a caller allowed to change it, that carries such a value answers 400 and
\* leaves the store unchanged; the boundary values are accepted.
OutOfRange(r) ==
  IF r.rtype = "mood"
    THEN r.body.intensity # NoNumber
           /\ (r.body.intensity < IntensityMin \/ r.body.intensity > IntensityMax)
    ELSE r.body.mood # NoNumber
           /\ (r.body.mood < RatingMin \/ r.body.mood > RatingMax)

Boundary(r) ==
  IF r.rtype = "mood"
    THEN r.body.intensity \in {IntensityMin, IntensityMax}
    ELSE r.body.mood \in {RatingMin, RatingMax}

C15_Step ==
  LET r == resp'
      reached == r.op = "create"
                   \/ (r.op = "update" /\ Addressed(r) # NULL
                         /\ (Addressed(r).user = r.caller \/ Role[r.caller] = "admin"))
  IN
  /\ \A id \in MoodIds :
       moods'[id] # NULL =>
         (moods'[id].intensity >= IntensityMin /\ moods'[id].intensity <= IntensityMax)
  /\ \A id \in JournalIds :
       journals'[id] # NULL =>
         (journals'[id].mood >= RatingMin /\ journals'[id].mood <= RatingMax)
  /\ (r.op \in {"create", "update"} /\ OutOfRange(r)) =>
       /\ r.status \notin {200, 201}
       /\ reached => r.status = 400
       /\ moods' = moods
       /\ journals' = journals
  /\ (reached /\ Boundary(r)) => r.status \in {200, 201}

C15_RangeEnforced == [][C15_Step]_vars

\* an entry was updated to the upper boundary value
C15_Witness ==
  /\ resp.op = "update"
  /\ resp.status = 200
  /\ resp.rtype = "mood"
  /\ resp.body.intensity = IntensityMax
  /\ moods[resp.id].intensity = IntensityMax

\* C12: a list (GET /mood, GET /journal) holds only entries owned by the
\* requesting user, for every filter, page and limit of the query.
C12_ListScoped ==
  resp.op = "list" =>
    \A i \in DOMAIN resp.data.data : resp.data.data[i].user = resp.caller

\* both users have a mood entry and the list of one of them, asked without
\* a filter, holds one entry
C12_Witness ==
  /\ resp.op = "list"
  /\ resp.rtype = "mood"
  /\ resp.body.user = NoFilter
  /\ resp.body.page = 1
  /\ Len(resp.data.data) = 1
  /\ \E i, j \in EntryIds :
       /\ moods[i] # NULL /\ moods[i].user = resp.caller
       /\ moods[j] # NULL /\ moods[j].user # resp.caller

\* the store with the entries of the users other than u removed, and with
\* each of them replaced by another entry made now
Own(store, u) ==
  [id \in DOMAIN store |->
     IF store[id] # NULL /\ store[id].user = u THEN store[id] ELSE NULL]

AlteredMoods(store, u) ==
  [id \in DOMAIN store |->
     IF store[id] # NULL /\ store[id].user # u
       THEN [store[id] EXCEPT !.mood = "tired", !.intensity = IntensityMax,
                              !.activities = <<"rest">>, !.createdAt = now]
       ELSE store[id]]

AlteredJournals(store, u) ==
  [id \in DOMAIN store |->
     IF store[id] # NULL /\ store[id].user # u
       THEN [store[id] EXCEPT !.emotion = "tired", !.mood = RatingMin,
                              !.tags = <<"rest">>, !.createdAt = now]
       ELSE store[id]]

\* C13: the statistics and insights of a user are computed from that
\* user's entries alone: the store, the store without the other users'
\* entries and the store with the other users' entries changed give the
\* same responses.
C13_OwnEntriesOnly ==
  \A u \in Clients :
    /\ moodStats(moods, u, now) = moodStats(Own(moods, u), u, now)
    /\ moodStats(moods, u, now) = moodStats(AlteredMoods(moods, u), u, now)
    /\ moodInsights(moods, u, now) = moodInsights(Own(moods, u), u, now)
    /\ moodInsights(moods, u, now) = moodInsights(AlteredMoods(moods, u), u, now)
    /\ journalStats(journals, u) = journalStats(Own(journals, u), u)
    /\ journalStats(journals, u) = journalStats(AlteredJournals(journals, u), u)
    /\ (resp.op = "stats" /\ resp.caller = u /\ resp.rtype = "mood") =>
         resp.data \in moodStats(Own(moods, u), u, resp.at)
    /\ (resp.op = "stats" /\ resp.caller = u /\ resp.rtype = "journal") =>
         resp.data \in journalStats(Own(journals, u), u)
    /\ (resp.op = "insights" /\ resp.caller = u) =>
         resp.data = moodInsights(Own(moods, u), u, resp.at)

\* a user with a journal entry got statistics while another user had a
\* journal entry too
C13_Witness ==
  /\ resp.op = "stats"
  /\ resp.rtype = "journal"
  /\ \E i, j \in EntryIds :
       /\ journals[i] # NULL /\ journals[i].user = resp.caller
       /\ journals[j] # NULL /\ journals[j].user # resp.caller

\* the sum of the counts of a sequence of buckets
RECURSIVE SumCounts(_)
SumCounts(s) == IF s = << >> THEN 0 ELSE Head(s).count + SumCounts(Tail(s))

\* C18: in the mood distribution of a user every entry of the user is
\* counted once, in the bucket of its mood: the counts sum to the number of
\* the user's entries, there is one bucket per mood the user has entries
\* of, and its avgIntensity is the mean intensity of exactly those entries;
\* the counts of the journal's moodStats sum to the user's journal entries.
C18_DistributionCounts ==
  /\ (resp.op = "stats" /\ resp.rtype = "mood") =>
       LET dist == resp.data.moodDistribution
           mine == {id \in EntryIds : moods[id] # NULL /\ moods[id].user = resp.caller}
       IN /\ SumCounts(dist) = Cardinality(mine)
          /\ \A id \in mine : \E i \in DOMAIN dist : dist[i]._id = moods[id].mood
          /\ \A i, j \in DOMAIN dist : dist[i]._id = dist[j]._id => i = j
          /\ \A i \in DOMAIN dist :
               LET members == {id \in mine : moods[id].mood = dist[i]._id} IN
               /\ dist[i].count = Cardinality(members)
               /\ dist[i].avgIntensity = Mean(SumIntensity(moods, members), dist[i].count)
  /\ (resp.op = "stats" /\ resp.rtype = "journal") =>
       LET dist == resp.data.moodStats
           mine == {id \in EntryIds :
                      journals[id] # NULL /\ journals[id].user = resp.caller}
       IN /\ SumCounts(dist) = Cardinality(mine)
          /\ \A i \in DOMAIN dist :
               dist[i].count =
                 Cardinality({id \in mine : journals[id].emotion = dist[i]._id})

\* the one entry {anxious, 8} of a user, while another user has an entry
\* too, gives the bucket anxious with count 1 and avgIntensity 8
C18_Witness ==
  /\ resp.op = "stats"
  /\ resp.rtype = "mood"
  /\ resp.data.moodDistribution =
       <<[_id |-> "anxious", count |-> 1, avgIntensity |-> Mean(8, 1)]>>
  /\ \E id \in EntryIds : moods[id] # NULL /\ moods[id].user # resp.caller

\* a sequence of buckets is in non-increasing order of count
CountDescending(s) == \A i, j \in DOMAIN s : i < j => s[i].count >= s[j].count

\* C19: the buckets of a distribution or correlation come sorted by count
\* descending and their order is a function of the entries: the response
\* given for a set of entries is the only one the handler can give for it.
C19_TiesDeterministic ==
  /\ (resp.op = "stats" /\ resp.rtype = "mood") =>
       /\ CountDescending(resp.data.moodDistribution)
       /\ CountDescending(resp.data.activitiesCorrelation)
       /\ moodStats(moods, resp.caller, resp.at) = {resp.data}
  /\ (resp.op = "stats" /\ resp.rtype = "journal") =>
       /\ CountDescending(resp.data.moodStats)
       /\ CountDescending(resp.data.tagStats)
       /\ journalStats(journals, resp.caller) = {resp.data}

\* the days a user has entries on
EntryDays(store, u) ==
  {dayOf(store[id].createdAt) : id \in {i \in EntryIds : store[i] # NULL /\ store[i].user = u}}

\* a timeline: ascending by day, no bucket without entries, and every day
\* of the user's entries that is left out is older than every day returned
TrailingWindow(timeline, entryDays) ==
  /\ \A i, j \in DOMAIN timeline : i < j => timeline[i]._id < timeline[j]._id
  /\ \A i \in DOMAIN timeline : timeline[i].count >= 1 /\ timeline[i]._id \in entryDays
  /\ \A d \in entryDays :
       (\A i \in DOMAIN timeline : timeline[i]._id # d) =>
         \A i \in DOMAIN timeline : d < timeline[i]._id

\* C20: the timeline of getMoodStats and of getJournalStats is sorted
\* ascending by day, has no bucket for a day without entries, and when it
\* leaves days of the user out, the days it returns are the most recent.
C20_TimelineMostRecent ==
  /\ (resp.op = "stats" /\ resp.rtype = "mood") =>
       TrailingWindow(resp.data.moodTimeline, EntryDays(moods, resp.caller))
  /\ (resp.op = "stats" /\ resp.rtype = "journal") =>
       TrailingWindow(resp.data.journalTimeline, EntryDays(journals, resp.caller))

\* the response of a request that succeeded
Succeeded(r, rtype, op, status) == r.rtype = rtype /\ r.op = op /\ r.status = status

\* C16: the score of a journal entry that was not supplied is computed when
\* the entry is created and again when its content changes, so the stored
\* score belongs to the stored content; a supplied score is stored as it is.
C16_Step ==
  LET last == resp
      r == resp'
  IN
  /\ Succeeded(r, "journal", "create", 201) =>
       r.data.sentimentScore =
         IF r.body.sentimentScore = NoScore THEN sentiment(r.data.content)
         ELSE r.body.sentimentScore
  /\ (/\ Succeeded(last, "journal", "create", 201)
      /\ last.body.sentimentScore = NoScore
      /\ Succeeded(r, "journal", "update", 200)
      /\ r.id = last.id
      /\ r.body.sentimentScore = NoScore) =>
       r.data.sentimentScore = sentiment(r.data.content)
  /\ Succeeded(r, "journal", "update", 200) =>
       /\ journals'[r.id] = r.data
       /\ r.body.sentimentScore # NoScore => r.data.sentimentScore = r.body.sentimentScore

C16_ScorePerContentVersion == [][C16_Step]_vars

\* the fields of a body the caller supplied are the fields of the entry
MoodFieldsKept(body, doc) ==
  /\ doc.mood = body.mood
  /\ doc.intensity = body.intensity
  /\ body.note # Absent => doc.note = body.note
  /\ doc.activities = body.activities
  /\ body.tags # << >> => doc.tags = body.tags

JournalFieldsKept(body, doc) ==
  /\ doc.content = body.content
  /\ body.emotion # Absent => doc.emotion = body.emotion
  /\ body.sentimentScore # NoScore => doc.sentimentScore = body.sentimentScore
  /\ body.tags # << >> => doc.tags = body.tags
  /\ doc.mood = body.mood

\* C17: a get that follows a create of the same user returns the entry
\* with every field the caller supplied as it was supplied, the id the
\* server assigned and the time of creation.
C17_Step ==
  LET created == resp
      got == resp'
  IN
  \A rtype \in {"mood", "journal"} :
    (/\ Succeeded(created, rtype, "create", 201)
     /\ Succeeded(got, rtype, "get", 200)
     /\ got.id = created.id
     /\ got.caller = created.caller) =>
      /\ got.data.user = created.caller
      /\ got.data.createdAt = created.at
      /\ IF rtype = "mood" THEN MoodFieldsKept(created.body, got.data)
         ELSE JournalFieldsKept(created.body, got.data)

C17_RoundTrip == [][C17_Step]_vars

\* the entries of the caller of a response that lie in the insights' window
InWindow(r) ==
  {id \in EntryIds : /\ moods[id] # NULL
                     /\ moods[id].user = r.caller
                     /\ moods[id].createdAt >= r.at - InsightDays * HoursPerDay}

\* C21: with no mood entry of the user in the window, getMoodInsights
\* answers 200 with the fixed message and exactly one suggestion; with
\* entries, the average it reports is over a positive number of entries.
C21_EmptyWindow ==
  resp.op = "insights" =>
    /\ resp.status = 200
    /\ InWindow(resp) = {} =>
         /\ DOMAIN resp.data = {"message", "suggestions"}
         /\ resp.data.message = "No mood entries found in the last 7 days"
         /\ Len(resp.data.suggestions) = 1
    /\ InWindow(resp) # {} =>
         /\ "message" \notin DOMAIN resp.data
         /\ resp.data.stats.totalEntries = Cardinality(InWindow(resp))
         /\ resp.data.stats.averageIntensity.count = Cardinality(InWindow(resp))

\* the user has an entry, but none in the window
C21_Witness ==
  /\ resp.op = "insights"
  /\ "message" \in DOMAIN resp.data
  /\ \E id \in EntryIds : moods[id] # NULL /\ moods[id].user = resp.caller

\* the times of the clock
Times == {k * TickHours : k \in 0..MaxTicks}

\* C22: for a non-empty window the suggestions hold no string twice and
\* at most 3 strings, taken in order from the suggestions the entries give
\* rise to, and insights and suggestions are those of the list of recent
\* entries, whenever it is asked for and whatever other users have stored.
C22_Suggestions ==
  (resp.op = "insights" /\ InWindow(resp) # {}) =>
    LET given == resp.data.suggestions
        recent == recentMoods(moods, resp.caller, resp.at)
    IN /\ Len(given) <= SuggestionLimit
       /\ \A i, j \in DOMAIN given : given[i] = given[j] => i = j
       /\ \A i \in DOMAIN given : given[i] = suggestions(recent)[i]
       /\ Len(given) < SuggestionLimit => Len(given) = Len(suggestions(recent))
       /\ \A t \in Times :
            recentMoods(AlteredMoods(moods, resp.caller), resp.caller, t) = recent =>
              LET other == moodInsights(AlteredMoods(moods, resp.caller), resp.caller, t)
              IN other.insights = resp.data.insights /\ other.suggestions = given

\* the entries give rise to four suggestions, three are returned
C22_Witness ==
  /\ resp.op = "insights"
  /\ InWindow(resp) # {}
  /\ Len(suggestions(recentMoods(moods, resp.caller, resp.at))) = 4
  /\ Len(resp.data.suggestions) = 3
  /\ Len(resp.data.insights) = 1

\* C23: when the completion service fails, POST /chat/analyze answers 200
\* with the keyword heuristic's result for the text, a score within -1 .. 1
\* and a label that goes with the score, and POST /chat answers 500 with
\* no reply.
C23_UpstreamUnavailable ==
  /\ (resp.op = "analyze" /\ resp.body.text # "" /\ resp.body.analysis = NoAnalysis) =>
       LET text == resp.body.text
           found == Includes[text]
           raw == Cardinality(found \cap positiveWords) - Cardinality(found \cap negativeWords)
           result == resp.data.sentiment
       IN /\ resp.status = 200
          /\ result.score >= ScoreMin
          /\ result.score <= ScoreMax
          /\ result.score = (IF raw > ScoreMax THEN ScoreMax
                              ELSE IF raw < ScoreMin THEN ScoreMin ELSE raw)
          /\ result.sentiment = (IF result.score > 0 THEN "positive"
                                  ELSE IF result.score < 0 THEN "negative" ELSE "neutral")
  /\ (resp.op = "chat" /\ resp.body.text # "" /\ resp.body.reply = Failed) =>
       resp.status = 500 /\ resp.data = NULL

\* a text with more positive words than the scale holds, while the service
\* is down
C23_Witness ==
  /\ resp.op = "analyze"
  /\ resp.body.analysis = NoAnalysis
  /\ Cardinality(Includes[resp.body.text]) > ScoreMax
  /\ resp.status = 200
  /\ resp.data.sentiment = [sentiment |-> "positive", score |-> ScoreMax]

\* C24: a request answered 401 on its first send enters the renewal path,
\* whichever instance sent it, and the stored token is removed and the
\* user sent to /login only in a step in which a renewal fails.
C24_Step ==
  LET failing == {k \in 1..renewCalls :
                    renewOutcome[k].st = "inflight" /\ renewOutcome'[k].st = "failed"}
  IN
  /\ \A r \in Reqs :
       (req[r].st = "sent" /\ req'[r].st # "sent" /\ req'[r].status = 401) =>
         /\ req'[r].st = "awaitRenew"
         /\ localToken' = localToken
         /\ location' = location
  /\ (localToken # NoToken /\ localToken' = NoToken) => failing # {}

C24_OneGateway == [][C24_Step]_vars

\* C25: a login or registration that succeeds leaves the token the server
\* returned in localStorage under 'token', where checkAuth looks for it on
\* the next page load.
C25_Step ==
  (~isAuthenticated /\ isAuthenticated') =>
    /\ user' # NoUser
    /\ localToken' # NoToken
    /\ localToken' = nextToken
    /\ localToken' > expired'

C25_SessionPersistent == [][C25_Step]_vars

\* C26: ProtectedRoute shows the content exactly when the auth state is
\* loaded, the user is authenticated and has the role required, if one is
\* required; otherwise it shows the spinner (while loading) or navigates
\* to redirectTo, '/login' by default.
C26_ContentOnlyWhenAllowed ==
  LET r == protectedRoute
      allowed == /\ ~r.isLoading
                 /\ r.isAuthenticated
                 /\ (r.requiredRole = Absent \/
                       (r.user # NoUser /\ Role[r.user] = r.requiredRole))
  IN r.mounted =>
       /\ r.rendered.shows = (IF r.children THEN "children" ELSE "outlet") <=> allowed
       /\ r.rendered.shows \in {"children", "outlet"} => allowed
       /\ r.rendered.shows = "spinner" <=> r.isLoading
       /\ r.rendered.shows \in {"children", "outlet", "spinner", "navigate"}
       /\ r.rendered.shows = "navigate" =>
            r.rendered.to = (IF r.redirectTo = Absent THEN "/login" ELSE r.redirectTo)

\* an authenticated user without the role required is sent away
C26_Witness ==
  /\ protectedRoute.mounted
  /\ ~protectedRoute.isLoading
  /\ protectedRoute.isAuthenticated
  /\ protectedRoute.requiredRole = "admin"
  /\ protectedRoute.user # NoUser
  /\ Role[protectedRoute.user] # "admin"
  /\ protectedRoute.rendered = [shows |-> "navigate", to |-> "/login"]

\* the calls that have answered with success
Succeeded200(op) ==
  {c \in CallIds : calls[c] # NoCall /\ calls[c].pc = "done"
                     /\ calls[c].op = op /\ calls[c].status = 200}

\* C27: concurrent updates and deletes of an entry answer as some
\* sequential order of them would: an update that reports success returns
\* the entry it updated, and of the deletes of one entry at most one
\* reports success (no entry is created in between).
C27_PerDocumentAtomicity ==
  /\ \A c \in Succeeded200("update") : calls[c].data # NULL
  /\ \A c, d \in Succeeded200("delete") :
       (calls[c].rtype = calls[d].rtype /\ calls[c].id = calls[d].id) => c = d

\* f applied n times
RECURSIVE Iterate(_, _)
Iterate(n, v) == IF n = 0 THEN v ELSE increment(Iterate(n - 1, v))

\* C28: after n calls setValue(f) since the value v was set, the hook's
\* state is f applied n times to v and localStorage holds that value, with
\* or without a render between the calls.
C28_UpdaterApplied ==
  storageHook.mounted =>
    /\ storageHook.storedValue = Iterate(storageHook.updates, storageHook.base)
    /\ storageHook.updates > 0 =>
         storageHook.item = stringify(Iterate(storageHook.updates, storageHook.base))

\* the pages first .. last - 1 in order, and their items one after another
PagesFrom(first, last) == [i \in 1..(last - first) |-> first + i - 1]

RECURSIVE ItemsOf(_, _)
ItemsOf(pages, lastPage) ==
  IF pages = << >> THEN << >>
  ELSE onLoadMore(Head(pages), lastPage) \o ItemsOf(Tail(pages), lastPage)

\* C29: items is the in-order concatenation of the pages initialPage ..
\* page - 1, each of them loaded once by a request made since the last
\* reset; the result of a load started before a reset is not added and
\* does not advance page.
C29_ItemsArePages ==
  infiniteScroll.mounted =>
    /\ infiniteScroll.loaded =
         PagesFrom(infiniteScroll.initialPage, infiniteScroll.state.page)
    /\ infiniteScroll.state.items = ItemsOf(infiniteScroll.loaded, infiniteScroll.lastPage)

\* the loading notifications of the requests that have not settled
PendingToasts == {calls[c].toast : c \in {d \in CallIds : calls[d].pending}}

\* C30: a loading notification is on screen only while its own request is
\* pending: it is dismissed when that request settles, also when calls
\* overlap, and none is left when every request of the hook has settled.
C30_LoadingDismissed ==
  apiRequest.mounted => apiRequest.toasts \subseteq PendingToasts

====
